---- MODULE Spec2Model ----
(***************************************************************************)
(* GamifyFit: the service worker's offline sync queue and fetch caching    *)
(* strategies (src/sw.js), the page-side PWAManager that feeds the queue   *)
(* (src/unnamed/part_001) and the OAuth callback (src/unnamed/part_003).   *)
(***************************************************************************)
EXTENDS Integers, Sequences, FiniteSets, TLC

(***************************************************************************)
(* Bounds of the model.                                                    *)
(***************************************************************************)
\* items ever added to offline_sync_queue
MaxItems == 2

(***************************************************************************)
(* Program constants.                                                      *)
(***************************************************************************)
\* offline_sync_queue.max_retries INT DEFAULT 3
max_retries == 3

\* offline_sync_queue.action_type ENUM (three of its values)
ActionTypes == {"challenge_complete", "activity_data", "weight_log"}

\* the payload handed to queueForSync for the item that gets a key
PayloadFor(key) == "payload-" \o ToString(key)

\* the attempt counter saturates one above max_retries
AttemptsCap == max_retries + 1

\* JSON.stringify(item.payload): the request body of a payload
JSONStringify(p) == "\"" \o p \o "\""

None == "none"

VARIABLES
    swRegistration, \* PWAManager.swRegistration is set
    store,          \* IndexedDB object store offline_sync_queue: key -> item
    added,          \* every item ever added, by key (the key generator's history)
    registered,     \* tags with a pending background-sync registration
    passes,         \* the sync pass each sync function is running, if any
    attempts,       \* POSTs attempted for the first item queued (saturating)
    okPosts,        \* per item, the first POST the backend answered ok, in order
    swState,        \* life cycle of the service worker: new, installed, activated
    caches,         \* CacheStorage: cache name -> (request URL -> response)
    fetched,        \* the last fetch event: request, locals and the answer
    callback,       \* the OAuth callback handler: its request, position, response
    authStart,      \* the OAuth start handler: the state it issued and its response
    clock,          \* the time, in days
    sessionCheck,   \* the session-check handler: its request and its response
    manager,        \* GamificationManager: data, events of the last call, saved item
    now,            \* the time of the page, in half days
    returned,       \* what the last call of the manager returned
    activeDays,     \* the days on which the streak was updated, since the reset
    maxCurrent,     \* the largest streak.current there has been, since the reset
    notification,   \* the notification clicked on: on display or closed
    clientList,     \* the URLs of the open windows, clients.matchAll order
    clicked,        \* what the last notificationclick did
    profile,        \* the user profile of the last generatePlan call
    plan            \* the plan the last generatePlan call returned

syncVars == <<swRegistration, store, added, registered, passes, attempts, okPosts>>

fetchVars == <<swState, caches, fetched>>

authVars == <<callback, authStart, clock, sessionCheck>>

gameVars == <<manager, now, returned, activeDays, maxCurrent>>

notifVars == <<notification, clientList, clicked>>

planVars == <<profile, plan>>

vars == <<syncVars, fetchVars, authVars, gameVars, notifVars, planVars>>

\* what the operations of one component leave alone
nonSyncVars == <<fetchVars, authVars, gameVars, notifVars, planVars>>

nonFetchVars == <<syncVars, authVars, gameVars, notifVars, planVars>>

nonAuthVars == <<syncVars, fetchVars, gameVars, notifVars, planVars>>

nonGameVars == <<syncVars, fetchVars, authVars, notifVars, planVars>>

nonNotifVars == <<syncVars, fetchVars, authVars, gameVars, planVars>>

nonPlanVars == <<syncVars, fetchVars, authVars, gameVars, notifVars>>

Min(a, b) == IF a < b THEN a ELSE b

\* the set of elements of a sequence
Range(s) == {s[i] : i \in 1..Len(s)}

(***************************************************************************)
(* IndexedDB helpers of the service worker.                                *)
(***************************************************************************)
RECURSIVE SortedKeys(_)
\* the keys of a key set in ascending order
SortedKeys(K) ==
    IF K = {} THEN <<>>
    ELSE LET m == CHOOSE k \in K : \A j \in K : k <= j
         IN <<m>> \o SortedKeys(K \ {m})

\* a mutant of getAllFromStore: the records come in descending key order
getAllFromStoreDesc(st) ==
    LET ks == SortedKeys(DOMAIN st)
    IN [i \in 1..Len(ks) |-> st[ks[Len(ks) + 1 - i]]]

\* getAllFromStore: store.getAll() returns the records in ascending key order
getAllFromStore(st) ==
    LET ks == SortedKeys(DOMAIN st)
    IN [i \in 1..Len(ks) |-> st[ks[i]]]

\* a mutant of deleteFromStore: the request reports success and deletes nothing
deleteFromStoreNoop(st, key) == st

\* deleteFromStore: store.delete(key); deleting an absent key succeeds
deleteFromStore(st, key) == [k \in (DOMAIN st) \ {key} |-> st[k]]

(***************************************************************************)
(* PWAManager (page side).                                                 *)
(***************************************************************************)
\* the tag queueForSync registers: `sync-${actionType}`
QueueSyncTag(actionType) == "sync-" \o actionType

\* the tags syncOfflineData registers
OfflineDataTags == {"sync-challenge-completion", "sync-activity-data"}

Tags == {QueueSyncTag(t) : t \in ActionTypes} \cup OfflineDataTags

\* registerServiceWorker: navigator.serviceWorker.register resolved
registerServiceWorker ==
    /\ ~swRegistration
    /\ swRegistration' = TRUE
    /\ UNCHANGED <<store, added, registered, passes, attempts, okPosts, nonSyncVars>>

\* queueForSync(actionType, payload): store.add with an auto-increment key,
\* then sync.register when there is a registration
queueForSync(actionType, payload) ==
    /\ Len(added) < MaxItems
    /\ LET key == Len(added) + 1
           item == [id |-> key, action_type |-> actionType,
                    payload |-> payload, synced |-> FALSE]
       IN /\ store' = [k \in (DOMAIN store) \cup {key} |->
                          IF k = key THEN item ELSE store[k]]
          /\ added' = Append(added, item)
    /\ registered' = IF swRegistration
                     THEN registered \cup {QueueSyncTag(actionType)}
                     ELSE registered
    /\ UNCHANGED <<swRegistration, passes, attempts, okPosts, nonSyncVars>>

\* the 'online' listener: syncOfflineData registers both tags
syncOfflineData ==
    /\ swRegistration
    /\ registered' = registered \cup OfflineDataTags
    /\ UNCHANGED <<swRegistration, store, added, passes, attempts, okPosts, nonSyncVars>>

\* getPendingSyncCount: store.count()
getPendingSyncCount == Cardinality(DOMAIN store)

(***************************************************************************)
(* Service worker: background sync.                                        *)
(***************************************************************************)
Idle == [pc |-> "idle"]

SyncFns == {"syncChallengeCompletions", "syncActivityData"}

\* the sync function the listener runs for a tag, or None
SyncListener(tag) ==
    IF tag = "sync-challenge-completion" THEN "syncChallengeCompletions"
    ELSE IF tag = "sync-activity-data" THEN "syncActivityData"
    ELSE None

\* the action_type a sync function filters on
HandledType(fn) ==
    IF fn = "syncChallengeCompletions" THEN "challenge_complete" ELSE "activity_data"

\* the endpoint a sync function POSTs to
PostUrl(fn) ==
    IF fn = "syncChallengeCompletions"
    THEN "/backend/api.php?action=complete_challenge"
    ELSE "/backend/api.php?action=save_activity"

RECURSIVE NextIdx(_, _, _)
\* the for loop: the first position at or after i whose item has the type
NextIdx(snap, i, type) ==
    IF i > Len(snap) THEN i
    ELSE IF snap[i].action_type = type THEN i
    ELSE NextIdx(snap, i + 1, type)

\* where a pass stands once its loop reaches position i
LoopAt(p, i) ==
    LET j == NextIdx(p.snap, i, HandledType(p.fn))
    IN [p EXCEPT !.idx = j, !.pc = IF j > Len(p.snap) THEN "done" ELSE "fetch"]

\* the sync listener: a registered tag fires; a handled tag starts its pass
\* (openIndexedDB, getAllFromStore), any other tag is ignored. A tag whose
\* event is still being handled fires again only afterwards.
SyncEvent(tag) ==
    /\ tag \in registered
    /\ registered' = registered \ {tag}
    /\ LET fn == SyncListener(tag)
       IN IF fn = None
          THEN UNCHANGED passes
          ELSE /\ passes[fn].pc = "idle"
               /\ LET p0 == [pc |-> "fetch", fn |-> fn,
                             snap |-> getAllFromStore(store),
                             idx |-> 1, tried |-> <<>>, okd |-> {}, delFailed |-> {}]
                  IN passes' = [passes EXCEPT ![fn] = LoopAt(p0, 1)]
    /\ UNCHANGED <<swRegistration, store, added, attempts, okPosts, nonSyncVars>>

Logged(log, key) == \E i \in 1..Len(log) : log[i].id = key

\* a POST the backend answered ok
OkPost(fn, item) ==
    [id |-> item.id, url |-> PostUrl(fn), body |-> JSONStringify(item.payload)]

\* where a pass stands after the POST of its current item failed (a mutant:
\* the failure ends the pass)
PostFailedAbort(p) == [p EXCEPT !.pc = "done", !.idx = Len(p.snap) + 1]

\* where a pass stands after the POST of its current item threw or was
\* answered non-ok: the inner catch, or the if, goes on with the next item
PostFailed(p) == LoopAt(p, p.idx + 1)

\* await fetch(url, {method: 'POST', body: JSON.stringify(item.payload)}):
\* the response is ok, is not ok, or the fetch throws
PostItem(fn, outcome) ==
    LET p == passes[fn]
        item == p.snap[p.idx]
        q == [p EXCEPT !.tried = Append(@, item.id)]
    IN /\ p.pc = "fetch"
       /\ attempts' = IF item.id = 1 THEN Min(attempts + 1, AttemptsCap) ELSE attempts
       /\ IF outcome = "ok"
          THEN /\ okPosts' = IF Logged(okPosts, item.id) THEN okPosts
                             ELSE Append(okPosts, OkPost(fn, item))
               /\ passes' = [passes EXCEPT ![fn] =
                                [q EXCEPT !.pc = "delete", !.okd = @ \cup {item.id}]]
          ELSE /\ okPosts' = okPosts
               /\ passes' = [passes EXCEPT ![fn] = PostFailed(q)]
       /\ UNCHANGED <<swRegistration, store, added, registered, nonSyncVars>>

\* await deleteFromStore(db, 'offline_sync_queue', item.id): the request
\* succeeds, or it fails and the inner catch goes on with the next item
DeleteItem(fn, success) ==
    LET p == passes[fn]
        item == p.snap[p.idx]
    IN /\ p.pc = "delete"
       /\ IF success
          THEN /\ store' = deleteFromStore(store, item.id)
               /\ passes' = [passes EXCEPT ![fn] = LoopAt(p, p.idx + 1)]
          ELSE /\ store' = store
               /\ passes' = [passes EXCEPT ![fn] =
                                LoopAt([p EXCEPT !.delFailed = @ \cup {item.id}], p.idx + 1)]
       /\ UNCHANGED <<swRegistration, added, registered, attempts, okPosts, nonSyncVars>>

\* the pass's promise settles and the sync event ends
PassReturn(fn) ==
    /\ passes[fn].pc = "done"
    /\ passes' = [passes EXCEPT ![fn] = Idle]
    /\ UNCHANGED <<swRegistration, store, added, registered, attempts, okPosts, nonSyncVars>>

SyncInit ==
    /\ swRegistration = FALSE
    /\ store = <<>>
    /\ added = <<>>
    /\ registered = {}
    /\ passes = [fn \in SyncFns |-> Idle]
    /\ attempts = 0
    /\ okPosts = <<>>

SyncNext ==
    \/ registerServiceWorker
    \/ \E t \in ActionTypes : queueForSync(t, PayloadFor(Len(added) + 1))
    \/ syncOfflineData
    \/ \E tag \in Tags : SyncEvent(tag)
    \/ \E fn \in SyncFns, o \in {"ok", "notok", "throw"} : PostItem(fn, o)
    \/ \E fn \in SyncFns, b \in BOOLEAN : DeleteItem(fn, b)
    \/ \E fn \in SyncFns : PassReturn(fn)

(***************************************************************************)
(* Service worker: caches and fetch strategies.                            *)
(***************************************************************************)
CACHE_VERSION == "v1.0.0"
CACHE_NAME == "GamifyFit-cache-" \o CACHE_VERSION
DYNAMIC_CACHE == "GamifyFit-dynamic-" \o CACHE_VERSION
API_CACHE == "GamifyFit-api-" \o CACHE_VERSION

STATIC_ASSETS ==
    {"/", "/index.html", "/auth.html", "/onboarding.html", "/dashboard.html",
     "/challenges.html", "/plan.html", "/progress.html", "/leaderboard.html",
     "/achievements.html", "/profile.html", "/offline.html", "/manifest.json",
     "/css/global.css", "/css/dashboard.css", "/css/challenges.css",
     "/css/plan.css", "/css/leaderboard.css", "/js/auth.js", "/js/onboarding.js",
     "/js/dashboard.js", "/js/googlefit.js", "/js/planGenerator.js",
     "/js/gamification.js", "/js/leaderboard.js", "/js/pwa.js",
     "/js/notifications.js", "/assets/icons/icon-192x192.png",
     "/assets/icons/icon-512x512.png", "/assets/icons/maskable-icon-192x192.png",
     "/assets/icons/maskable-icon-512x512.png"}

API_ENDPOINTS == {"/backend/api.php", "/api/", "https://www.googleapis.com/fitness/"}

staticExtensions ==
    {".css", ".js", ".png", ".jpg", ".jpeg", ".gif", ".svg", ".ico", ".woff", ".woff2"}

\* String.prototype.startsWith, endsWith, includes
StartsWith(str, pre) == Len(str) >= Len(pre) /\ SubSeq(str, 1, Len(pre)) = pre
EndsWith(str, suf) ==
    Len(str) >= Len(suf) /\ SubSeq(str, Len(str) - Len(suf) + 1, Len(str)) = suf
Includes(str, sub) ==
    \E i \in 1..(Len(str) - Len(sub) + 1) : SubSeq(str, i, i + Len(sub) - 1) = sub

\* the origin the service worker is served from
Origin == [protocol |-> "https:", host |-> "gamifyfit.example"]

\* new URL(request.url): the parts of a URL and its href
Url(protocol, host, pathname, search) ==
    [protocol |-> protocol, host |-> host, pathname |-> pathname, search |-> search,
     href |-> protocol \o "//" \o host \o pathname \o search]

\* the URL a path resolves to in the service worker's scope
ScopeUrl(path) == Url(Origin.protocol, Origin.host, path, "").href

\* the request caches.match('/offline.html') looks up
OfflineUrl == ScopeUrl("/offline.html")

\* the URLs requested of the service worker
Urls ==
    {Url("https:", Origin.host, "/dashboard.html", ""),
     Url("https:", Origin.host, "/js/app.js", ""),
     Url("https:", Origin.host, "/backend/api.php", "?action=stats"),
     Url("https:", Origin.host, "/api/data.js", ""),
     Url("https:", Origin.host, "/settings.html", ""),
     Url("chrome-extension:", "abcdef", "/content.js", "")}

\* the requests the fetch listener is given
Requests ==
    [method : {"GET"}, url : Urls, mode : {"navigate", "no-cors"}]
    \cup [method : {"POST"}, mode : {"no-cors"},
          url : {Url("https:", Origin.host, "/backend/api.php", "?action=stats")}]

\* JavaScript values the strategies handle
Undefined == [kind |-> "undefined"]
Null == [kind |-> "null"]
Promise(v) == [kind |-> "promise", value |-> v]
Response(href, status, body) ==
    [kind |-> "response", url |-> href, status |-> status, body |-> body]

\* a value is truthy unless it is undefined or null; a promise is an object
Truthy(v) == v.kind \notin {"undefined", "null"}

\* response.ok
Ok(r) == r.kind = "response" /\ r.status \in 200..299

\* what an async function returning v resolves to
Resolved(v) == IF v.kind = "promise" THEN v.value ELSE v

\* what fetch(request) does: it resolves with a response or it rejects
NetOutcomes ==
    {[kind |-> "resolve", status |-> 200], [kind |-> "resolve", status |-> 500],
     [kind |-> "reject", status |-> 0]}

NetworkResponse(href, net) == Response(href, net.status, "network")

\* CacheStorage keeps its caches in creation order
CacheNames(cs) == {cs[i].name : i \in 1..Len(cs)}

\* the entries of the cache with a name
CacheEntries(cs, name) ==
    LET i == CHOOSE j \in 1..Len(cs) : cs[j].name = name
    IN cs[i].entries

\* cache.match(request) on one cache
CacheMatch(cs, name, href) ==
    IF name \in CacheNames(cs) /\ href \in DOMAIN CacheEntries(cs, name)
    THEN CacheEntries(cs, name)[href]
    ELSE Undefined

RECURSIVE CachesMatchFrom(_, _, _)
CachesMatchFrom(cs, i, href) ==
    IF i > Len(cs) THEN Undefined
    ELSE IF href \in DOMAIN cs[i].entries THEN cs[i].entries[href]
    ELSE CachesMatchFrom(cs, i + 1, href)

\* caches.match(request): the first match over the caches, in creation order
CachesMatch(cs, href) == CachesMatchFrom(cs, 1, href)

\* caches.open(name) creates the cache when there is none
CachesOpen(cs, name) ==
    IF name \in CacheNames(cs) THEN cs
    ELSE Append(cs, [name |-> name, entries |-> <<>>])

\* caches.open(name) followed by cache.put(request, response)
CachePut(cs, name, href, resp) ==
    LET o == CachesOpen(cs, name)
    IN [i \in 1..Len(o) |->
          IF o[i].name = name
          THEN [o[i] EXCEPT !.entries =
                   [h \in (DOMAIN o[i].entries) \cup {href} |->
                       IF h = href THEN resp ELSE o[i].entries[h]]]
          ELSE o[i]]

\* the requested URLs isApiRequest and isStaticAsset accept
ApiUrls == {url \in Urls : \E endpoint \in API_ENDPOINTS : Includes(url.href, endpoint)}

StaticUrls ==
    {url \in Urls : \/ \E ext \in staticExtensions : EndsWith(url.pathname, ext)
                    \/ url.pathname \in STATIC_ASSETS}

isApiRequest(url) == url \in ApiUrls

isStaticAsset(url) == url \in StaticUrls

\* a mutant of FetchStrategy: static assets are recognised before API calls
FetchStrategyStaticFirst(request) ==
    IF request.method # "GET" THEN None
    ELSE IF ~StartsWith(request.url.protocol, "http") THEN None
    ELSE IF isStaticAsset(request.url) THEN "cacheFirstWithNetwork"
    ELSE IF isApiRequest(request.url) THEN "networkFirstWithCache"
    ELSE IF request.mode = "navigate" THEN "navigationHandler"
    ELSE "staleWhileRevalidate"

\* the fetch listener: the strategy it answers a request with, or None
FetchStrategy(request) ==
    IF request.method # "GET" THEN None
    ELSE IF ~StartsWith(request.url.protocol, "http") THEN None
    ELSE IF isApiRequest(request.url) THEN "networkFirstWithCache"
    ELSE IF isStaticAsset(request.url) THEN "cacheFirstWithNetwork"
    ELSE IF request.mode = "navigate" THEN "navigationHandler"
    ELSE "staleWhileRevalidate"

\* the cache a strategy is given, or opens itself
StrategyCache(strategy) ==
    IF strategy = "networkFirstWithCache" THEN API_CACHE
    ELSE IF strategy = "cacheFirstWithNetwork" THEN CACHE_NAME
    ELSE DYNAMIC_CACHE

\* what a strategy did: the value it returned, the expression that value came
\* from, its local cachedResponse, and the caches afterwards
Answer(response, via, cached, cs) ==
    [response |-> response, via |-> via, cachedResponse |-> cached, caches |-> cs]

\* the network response is put in the cache when it is ok
PutIfOk(cs, name, href, resp) == IF Ok(resp) THEN CachePut(cs, name, href, resp) ELSE cs

cacheFirstWithNetwork(cs, href, cacheName, net) ==
    LET cachedResponse == CachesMatch(cs, href)
        networkResponse == NetworkResponse(href, net)
    IN IF Truthy(cachedResponse)
       THEN Answer(cachedResponse, "cache", cachedResponse, cs)
       ELSE IF net.kind = "reject"
            THEN Answer(CachesMatch(cs, OfflineUrl), "offline",
                        cachedResponse, cs)
            ELSE Answer(networkResponse, "network", cachedResponse,
                        PutIfOk(cs, cacheName, href, networkResponse))

\* the JSON response networkFirstWithCache builds when offline
OfflineJson(href) == Response(href, 503, "{error: offline}")

\* a mutant of networkFirstWithCache: a non-ok response is replaced by the
\* cached one
networkFirstCacheOnError(cs, href, cacheName, net) ==
    LET cachedResponse == CachesMatch(cs, href)
        networkResponse == NetworkResponse(href, net)
    IN IF net.kind = "resolve" /\ (Ok(networkResponse) \/ ~Truthy(cachedResponse))
       THEN Answer(networkResponse, "network", Undefined,
                   PutIfOk(cs, cacheName, href, networkResponse))
       ELSE IF Truthy(cachedResponse)
            THEN Answer(cachedResponse, "cache", cachedResponse, cs)
            ELSE Answer(OfflineJson(href), "offline", cachedResponse, cs)

networkFirstWithCache(cs, href, cacheName, net) ==
    LET cachedResponse == CachesMatch(cs, href)
        networkResponse == NetworkResponse(href, net)
    IN IF net.kind = "resolve"
       THEN Answer(networkResponse, "network", Undefined,
                   PutIfOk(cs, cacheName, href, networkResponse))
       ELSE IF Truthy(cachedResponse)
            THEN Answer(cachedResponse, "cache", cachedResponse, cs)
            ELSE Answer(OfflineJson(href), "offline", cachedResponse, cs)

\* cachedResponse || fetchPromise || caches.match('/offline.html'), where
\* fetchPromise resolves to the network response, or to null on a rejection
staleWhileRevalidate(cs, href, cacheName, net) ==
    LET opened == CachesOpen(cs, cacheName)
        cachedResponse == CacheMatch(opened, cacheName, href)
        networkResponse == NetworkResponse(href, net)
        fetchPromise == Promise(IF net.kind = "resolve" THEN networkResponse ELSE Null)
        after == IF net.kind = "resolve"
                 THEN PutIfOk(opened, cacheName, href, networkResponse)
                 ELSE opened
    IN IF Truthy(cachedResponse)
       THEN Answer(cachedResponse, "cache", cachedResponse, after)
       ELSE IF Truthy(fetchPromise)
            THEN Answer(Resolved(fetchPromise), "network", cachedResponse, after)
            ELSE Answer(CachesMatch(cs, OfflineUrl), "offline",
                        cachedResponse, after)

navigationHandler(cs, href, net) ==
    LET cachedResponse == CachesMatch(cs, href)
        networkResponse == NetworkResponse(href, net)
    IN IF net.kind = "resolve"
       THEN Answer(networkResponse, "network", Undefined,
                   PutIfOk(cs, DYNAMIC_CACHE, href, networkResponse))
       ELSE IF Truthy(cachedResponse)
            THEN Answer(cachedResponse, "cache", cachedResponse, cs)
            ELSE Answer(CachesMatch(cs, OfflineUrl), "offline",
                        cachedResponse, cs)

\* event.respondWith(strategy(request, cache))
RespondWith(cs, strategy, href, net) ==
    IF strategy = "networkFirstWithCache"
    THEN networkFirstWithCache(cs, href, API_CACHE, net)
    ELSE IF strategy = "cacheFirstWithNetwork"
    THEN cacheFirstWithNetwork(cs, href, CACHE_NAME, net)
    ELSE IF strategy = "navigationHandler"
    THEN navigationHandler(cs, href, net)
    ELSE staleWhileRevalidate(cs, href, DYNAMIC_CACHE, net)

NoFetch == [strategy |-> "idle"]

NoCallback == [pc |-> "idle"]

AuthIdle ==
    /\ callback = NoCallback
    /\ authStart = NoCallback
    /\ clock = 0
    /\ sessionCheck = NoCallback

\* caches left by an earlier version of the application, and a foreign one
LeftoverEntries == [h \in {ScopeUrl("/index.html")} |-> Response(h, 200, "network")]

LeftoverCaches ==
    <<[name |-> "GamifyFit-cache-v0.9.0", entries |-> LeftoverEntries],
      [name |-> "fonts-v1", entries |-> LeftoverEntries],
      [name |-> "GamifyFit-dynamic-v0.9.0", entries |-> LeftoverEntries]>>

\* the caches a restart of the same version finds: the leftovers and the
\* dynamic and API caches the fetch listener had filled
RestartCaches ==
    LeftoverCaches \o
    <<[name |-> DYNAMIC_CACHE, entries |-> LeftoverEntries],
      [name |-> API_CACHE, entries |-> LeftoverEntries]>>

\* the requests cache.addAll(STATIC_ASSETS) makes
PrecacheUrls == {ScopeUrl(a) : a \in STATIC_ASSETS}

\* cache.addAll(STATIC_ASSETS) on the static cache
Precache(cs) ==
    [i \in 1..Len(cs) |->
        IF cs[i].name = CACHE_NAME
        THEN [cs[i] EXCEPT !.entries =
                 [h \in (DOMAIN cs[i].entries) \cup PrecacheUrls |->
                     IF h \in PrecacheUrls THEN Response(h, 200, "network")
                     ELSE cs[i].entries[h]]]
        ELSE cs[i]]

\* a mutant of IsOldCache: the caches of the current version are deleted too
IsOldCacheAnyVersion(cacheName) == StartsWith(cacheName, "GamifyFit-")

\* the activate listener's filter: the caches it deletes
IsOldCache(cacheName) ==
    /\ StartsWith(cacheName, "GamifyFit-")
    /\ cacheName # CACHE_NAME
    /\ cacheName # DYNAMIC_CACHE
    /\ cacheName # API_CACHE

RECURSIVE DeleteOldCaches(_, _)
\* caches.delete for every cache name the filter selects, from the i-th on
DeleteOldCaches(cs, i) ==
    IF i > Len(cs) THEN <<>>
    ELSE (IF IsOldCache(cs[i].name) THEN <<>> ELSE <<cs[i]>>)
         \o DeleteOldCaches(cs, i + 1)

\* the install listener: cache.addAll(STATIC_ASSETS) stores every asset or,
\* when one request fails, none; the catch lets the installation go on
Install(precached) ==
    /\ swState = "new"
    /\ swState' = "installed"
    /\ caches' = IF precached
                 THEN Precache(CachesOpen(caches, CACHE_NAME))
                 ELSE CachesOpen(caches, CACHE_NAME)
    /\ UNCHANGED <<fetched, nonFetchVars>>

\* the activate listener deletes the caches of other versions
Activate ==
    /\ swState = "installed"
    /\ swState' = "activated"
    /\ caches' = DeleteOldCaches(caches, 1)
    /\ UNCHANGED <<fetched, nonFetchVars>>

\* the fetch listener and the strategy it answers with
FetchEvent(request, net) ==
    /\ swState = "activated"
    /\ LET strategy == FetchStrategy(request)
           href == request.url.href
       IN IF strategy = None
          THEN /\ fetched' = [strategy |-> None, request |-> request]
               /\ UNCHANGED caches
          ELSE LET a == RespondWith(caches, strategy, href, net)
               IN /\ fetched' = [strategy |-> strategy, request |-> request,
                                 cache |-> StrategyCache(strategy), net |-> net,
                                 cachedResponse |-> a.cachedResponse,
                                 response |-> a.response, via |-> a.via,
                                 before |-> caches]
                  /\ caches' = a.caches
    /\ UNCHANGED <<swState, nonFetchVars>>

FetchIdle ==
    /\ swState = "new"
    /\ caches = <<>>
    /\ fetched = NoFetch

FetchNext ==
    \/ \E precached \in BOOLEAN : Install(precached)
    \/ Activate
    \/ \E request \in Requests, net \in NetOutcomes : FetchEvent(request, net)


(***************************************************************************)
(* OAuth callback handler.                                                 *)
(***************************************************************************)
\* a value that is undefined (an absent query parameter, header or cookie)
NoValue == "<undefined>"

\* a string is truthy unless it is undefined or empty
TruthyStr(v) == v # NoValue /\ v # ""

RECURSIVE IndexOf(_, _, _)
\* the first position at or after i of a character in a string, or 0
IndexOf(str, ch, i) ==
    IF i > Len(str) THEN 0
    ELSE IF SubSeq(str, i, i) = ch THEN i
    ELSE IndexOf(str, ch, i + 1)

RECURSIVE Split(_, _)
\* String.prototype.split on a one-character separator
Split(str, ch) ==
    LET i == IndexOf(str, ch, 1)
    IN IF i = 0 THEN <<str>>
       ELSE <<SubSeq(str, 1, i - 1)>> \o Split(SubSeq(str, i + 1, Len(str)), ch)

RECURSIVE Trim(_)
\* String.prototype.trim
Trim(str) ==
    IF Len(str) = 0 THEN str
    ELSE IF SubSeq(str, 1, 1) = " " THEN Trim(SubSeq(str, 2, Len(str)))
    ELSE IF SubSeq(str, Len(str), Len(str)) = " " THEN Trim(SubSeq(str, 1, Len(str) - 1))
    ELSE str

RECURSIVE ParseCookiesFrom(_, _, _)
ParseCookiesFrom(list, i, cookies) ==
    IF i > Len(list) THEN cookies
    ELSE LET parts == Split(Trim(list[i]), "=")
             name == parts[1]
             value == IF Len(parts) >= 2 THEN parts[2] ELSE NoValue
         IN ParseCookiesFrom(list, i + 1,
                IF TruthyStr(name) /\ TruthyStr(value)
                THEN [n \in (DOMAIN cookies) \cup {name} |->
                         IF n = name THEN value ELSE cookies[n]]
                ELSE cookies)

\* parseCookies(cookieHeader): name -> value
parseCookies(cookieHeader) ==
    IF ~TruthyStr(cookieHeader) THEN <<>>
    ELSE ParseCookiesFrom(Split(cookieHeader, ";"), 1, <<>>)

\* cookies[name], undefined when the cookie is absent
Cookie(cookies, name) == IF name \in DOMAIN cookies THEN cookies[name] ELSE NoValue

\* encodeURIComponent of one character (letters, digits and _ are kept)
EncodeChar(ch) ==
    IF ch = " " THEN "%20"
    ELSE IF ch = "&" THEN "%26"
    ELSE IF ch = "=" THEN "%3D"
    ELSE IF ch = "/" THEN "%2F"
    ELSE ch

RECURSIVE encodeURIComponent(_)
encodeURIComponent(str) ==
    IF Len(str) = 0 THEN str
    ELSE EncodeChar(SubSeq(str, 1, 1)) \o encodeURIComponent(SubSeq(str, 2, Len(str)))

\* the values crypto.randomUUID() gives the start handler
UUIDs == {"s1", "s2"}

\* the cookie the start handler stores the state in
StateCookie(state) ==
    [name |-> "oauth_state", value |-> state,
     attrs |-> {"Path=/", "HttpOnly", "SameSite=Lax", "Max-Age=600"}]

\* the OAuth start handler: a fresh state, kept in a cookie and sent to the
\* provider in the redirect
AuthStart(state) ==
    /\ authStart' =
          [pc |-> "done", state |-> state,
           res |-> [status |-> 302,
                    location |-> "https://accounts.google.com/o/oauth2/v2/auth?"
                                 \o "response_type=code&state=" \o state,
                    setCookie |-> <<StateCookie(state)>>]]
    /\ UNCHANGED <<callback, clock, sessionCheck, nonAuthVars>>

\* the requests made of the callback: req.query and req.headers.cookie
CallbackRequests ==
    [code : {"code-1"},
     state : {NoValue, "s1", "s2"},
     error : {NoValue, "access_denied", "server error"},
     cookie : {NoValue, "oauth_state=s1", "theme=dark; oauth_state=s2",
               "oauth_state=; theme=dark"}]

\* res.redirect(302, location) with the Set-Cookie headers set before it
Redirect(location, setCookie) ==
    [status |-> 302, location |-> location, setCookie |-> setCookie]

\* process.env.AUTH_SECRET, and a key that is not the secret
AUTH_SECRET == "k1"
OtherKey == "k2"

\* setExpirationTime('7d'): the lifetime of a session token, in days
SessionDays == 7

RECURSIVE Join(_, _)
\* Array.prototype.join
Join(list, sep) ==
    IF Len(list) = 0 THEN ""
    ELSE IF Len(list) = 1 THEN list[1]
    ELSE list[1] \o sep \o Join(Tail(list), sep)

\* a string with every occurrence of one character replaced
Replace(str, ch, by) == Join(Split(str, ch), by)

\* base64url: an encoding without the characters . ; = and its inverse
Base64UrlEncode(str) == Replace(str, ".", "~")
Base64UrlDecode(str) == Replace(str, "~", ".")

RECURSIVE ParseNat(_, _)
\* the number a string of digits denotes, after the digits read so far
ParseNat(str, n) ==
    IF Len(str) = 0 THEN n
    ELSE ParseNat(SubSeq(str, 2, Len(str)),
                  10 * n + (CHOOSE d \in 0..9 : ToString(d) = SubSeq(str, 1, 1)))

\* the JSON of a JWT payload and the payload of that JSON
PayloadJson(payload) ==
    payload.sub \o "," \o payload.email \o "," \o payload.name \o ","
    \o payload.picture \o "," \o ToString(payload.iat) \o "," \o ToString(payload.exp)

PayloadOfJson(json) ==
    LET f == Split(json, ",")
    IN [sub |-> f[1], email |-> f[2], name |-> f[3], picture |-> f[4],
        iat |-> ParseNat(f[5], 0), exp |-> ParseNat(f[6], 0)]

\* HMAC of the signing input under a key, base64url encoded
Hmac(key, input) == "mac-" \o key \o "-" \o Base64UrlEncode(input)

\* the compact serialisation header.payload.signature
CompactJwt(alg, payload, key) ==
    LET input == alg \o "." \o Base64UrlEncode(PayloadJson(payload))
    IN input \o "." \o (IF alg = "none" THEN "" ELSE Hmac(key, input))

\* the claims the callback signs for a user at a time
SessionClaims(user, iat) ==
    [sub |-> user.id, email |-> user.email, name |-> user.name,
     picture |-> user.picture, iat |-> iat, exp |-> iat + SessionDays]

\* the session JWT: new SignJWT(claims) ... .sign(secret)
SessionToken(user, iat) == CompactJwt("HS256", SessionClaims(user, iat), AUTH_SECRET)

\* the userinfo Google answers with
GoogleUser == [id |-> "g-1", email |-> "u@x.io", name |-> "U", picture |-> "p"]

\* the Set-Cookie headers of the success path
SessionCookies(user, production, iat) ==
    <<[name |-> "session", value |-> SessionToken(user, iat),
       attrs |-> {"Path=/", "HttpOnly", "SameSite=Lax", "Max-Age=604800"}
                 \cup (IF production THEN {"Secure"} ELSE {})],
      [name |-> "oauth_state", value |-> "",
       attrs |-> {"Path=/", "HttpOnly", "Max-Age=0"}]>>

Finished(cb, location, setCookie) ==
    [cb EXCEPT !.pc = "done", !.res = Redirect(location, setCookie)]

\* the state check: state === cookies.oauth_state
StateVerified(req) == req.state = Cookie(parseCookies(req.cookie), "oauth_state")

\* the handler up to its first await: the error check, the state check and
\* the start of the token exchange
CallbackRequest(req, production) ==
    /\ callback.pc \in {"idle", "done"}
    /\ LET cb == [pc |-> "token", req |-> req, production |-> production,
                  token |-> "none", userinfo |-> "none", sign |-> "none",
                  res |-> NoValue]
       IN callback' =
            IF TruthyStr(req.error)
            THEN Finished(cb, "/auth.html?error=" \o encodeURIComponent(req.error), <<>>)
            ELSE IF ~StateVerified(req)
            THEN Finished(cb, "/auth.html?error=invalid_state", <<>>)
            ELSE cb
    /\ UNCHANGED <<authStart, clock, sessionCheck, nonAuthVars>>

\* await fetch(token endpoint): ok, not ok (and then text() resolves or
\* rejects), or a rejection (also of json())
TokenResponse(outcome) ==
    /\ callback.pc = "token"
    /\ LET cb == [callback EXCEPT !.token = outcome]
       IN callback' =
            IF outcome \in {"throw", "notok-throw"}
            THEN Finished(cb, "/auth.html?error=callback_failed", <<>>)
            ELSE IF outcome = "notok"
            THEN Finished(cb, "/auth.html?error=token_exchange_failed", <<>>)
            ELSE [cb EXCEPT !.pc = "userinfo"]
    /\ UNCHANGED <<authStart, clock, sessionCheck, nonAuthVars>>

\* a mutant of UserResponse: userResponse.ok is not checked
UserResponseUnchecked(outcome) ==
    /\ callback.pc = "userinfo"
    /\ LET cb == [callback EXCEPT !.userinfo = outcome]
       IN callback' =
            IF outcome = "throw"
            THEN Finished(cb, "/auth.html?error=callback_failed", <<>>)
            ELSE [cb EXCEPT !.pc = "sign"]
    /\ UNCHANGED <<authStart, clock, sessionCheck, nonAuthVars>>

\* await fetch(userinfo endpoint): ok, not ok, or a rejection (also of json())
UserResponse(outcome) ==
    /\ callback.pc = "userinfo"
    /\ LET cb == [callback EXCEPT !.userinfo = outcome]
       IN callback' =
            IF outcome = "throw"
            THEN Finished(cb, "/auth.html?error=callback_failed", <<>>)
            ELSE IF outcome = "notok"
            THEN Finished(cb, "/auth.html?error=failed_to_get_user", <<>>)
            ELSE [cb EXCEPT !.pc = "sign"]
    /\ UNCHANGED <<authStart, clock, sessionCheck, nonAuthVars>>

\* await new SignJWT(...).sign(secret), then the cookies and the redirect
SignSession(outcome) ==
    /\ callback.pc = "sign"
    /\ LET cb == [callback EXCEPT !.sign = outcome]
       IN callback' =
            IF outcome = "throw"
            THEN Finished(cb, "/auth.html?error=callback_failed", <<>>)
            ELSE Finished(cb, "/onboarding.html",
                          SessionCookies(GoogleUser, callback.production, clock))
    /\ UNCHANGED <<authStart, clock, sessionCheck, nonAuthVars>>

\* the largest time the clock reaches
MaxClock == 7

\* a day passes
Tick ==
    /\ clock < MaxClock
    /\ clock' = clock + 1
    /\ UNCHANGED <<callback, authStart, sessionCheck, nonAuthVars>>

\* jwtVerify rejected the token (it throws)
Rejected == [ok |-> FALSE]

\* a mutant of jwtVerify: the token is decoded and its signature not verified
jwtDecodeOnly(token, key, time) ==
    LET parts == Split(token, ".")
    IN IF Len(parts) # 3 THEN Rejected
       ELSE IF Len(Split(Base64UrlDecode(parts[2]), ",")) # 6 THEN Rejected
       ELSE LET payload == PayloadOfJson(Base64UrlDecode(parts[2]))
            IN IF payload.exp <= time THEN Rejected
               ELSE [ok |-> TRUE, payload |-> payload]

\* jwtVerify(token, secret): three parts, an HMAC algorithm, the signature of
\* header.payload under the key, and an expiration time still ahead
jwtVerify(token, key, time) ==
    LET parts == Split(token, ".")
    IN IF Len(parts) # 3 THEN Rejected
       ELSE IF parts[1] # "HS256" THEN Rejected
       ELSE IF parts[3] # Hmac(key, parts[1] \o "." \o parts[2]) THEN Rejected
       ELSE IF Len(Split(Base64UrlDecode(parts[2]), ",")) # 6 THEN Rejected
       ELSE LET payload == PayloadOfJson(Base64UrlDecode(parts[2]))
            IN IF payload.exp <= time THEN Rejected
               ELSE [ok |-> TRUE, payload |-> payload]

\* res.status(200).json({ user })
Json(user) == [status |-> 200, body |-> [user |-> user]]

\* the session-check handler
SessionCheck(cookieHeader) ==
    /\ LET sessionToken == Cookie(parseCookies(cookieHeader), "session")
           verified == jwtVerify(sessionToken, AUTH_SECRET, clock)
           res == IF ~TruthyStr(sessionToken) THEN Json(Null)
                  ELSE IF verified.ok
                  THEN Json([id |-> verified.payload.sub,
                             email |-> verified.payload.email,
                             name |-> verified.payload.name,
                             picture |-> verified.payload.picture])
                  ELSE Json(Null)
       IN sessionCheck' = [pc |-> "done", cookie |-> cookieHeader, at |-> clock,
                           res |-> res]
    /\ UNCHANGED <<callback, authStart, clock, nonAuthVars>>

\* someone else's account
OtherUser == [id |-> "g-2", email |-> "v@x.io", name |-> "V", picture |-> "p"]

\* the token of the session cookie the callback has set, if it has set one
IssuedTokens ==
    IF callback.pc = "done"
    THEN {callback.res.setCookie[i].value :
             i \in {j \in DOMAIN callback.res.setCookie :
                        callback.res.setCookie[j].name = "session"}}
    ELSE {}

\* a token with the claims replaced and the signature kept
Tampered(token, payload) ==
    LET parts == Split(token, ".")
    IN parts[1] \o "." \o Base64UrlEncode(PayloadJson(payload)) \o "." \o parts[3]

\* the tokens a client can put in its session cookie: the one it was issued,
\* that one with other claims, one signed with another key, an unsigned one
ClientTokens ==
    IssuedTokens
    \cup {Tampered(t, SessionClaims(OtherUser, 0)) : t \in IssuedTokens}
    \cup {CompactJwt("HS256", SessionClaims(OtherUser, 0), OtherKey),
          CompactJwt("none", SessionClaims(OtherUser, 0), OtherKey),
          "abc"}

\* the Cookie headers of the requests made of the session check
SessionCheckHeaders ==
    {NoValue, "theme=dark", "session="}
    \cup {"session=" \o t : t \in ClientTokens}
    \cup {"theme=dark; session=" \o t : t \in IssuedTokens}

\* the sign-in flows followed by session checks: callbacks with the state the
\* start handler issued
SessionFlowRequests ==
    {req \in CallbackRequests :
        /\ req.error = NoValue
        /\ req.state = "s1"
        /\ req.cookie = "oauth_state=s1"}

SessionNext ==
    \/ \E req \in SessionFlowRequests : CallbackRequest(req, TRUE)
    \/ \E outcome \in {"ok", "notok", "notok-throw", "throw"} : TokenResponse(outcome)
    \/ \E outcome \in {"ok", "notok", "throw"} : UserResponse(outcome)
    \/ \E outcome \in {"ok", "throw"} : SignSession(outcome)
    \/ Tick
    \/ \E cookieHeader \in SessionCheckHeaders : SessionCheck(cookieHeader)

AuthNext ==
    \/ \E state \in UUIDs : AuthStart(state)
    \/ \E req \in CallbackRequests, production \in BOOLEAN : CallbackRequest(req, production)
    \/ \E outcome \in {"ok", "notok", "notok-throw", "throw"} : TokenResponse(outcome)
    \/ \E outcome \in {"ok", "notok", "throw"} : UserResponse(outcome)
    \/ \E outcome \in {"ok", "throw"} : SignSession(outcome)


(***************************************************************************)
(* GamificationManager: XP, levels, streaks, badges.                       *)
(***************************************************************************)
\* the most history entries after which an operation is still started
MaxHistory == 3

\* the last time the clock of the page reaches, in half days
MaxNow == 15

\* the half days of a calendar day: two activities can fall on one day
TicksPerDay == 2

\* lastActivity: null
NullTime == -1

\* Math.floor(100 * Math.pow(1.15, i - 1)) for i = 1..50, in IEEE doubles
\* (100 * 1.15 is 114.99999999999999)
xpRequired ==
    <<
      100, 114, 132, 152, 174, 201, 231, 266, 305, 351,
      404, 465, 535, 615, 707, 813, 935, 1076, 1237, 1423,
      1636, 1882, 2164, 2489, 2862, 3291, 3785, 4353, 5006, 5757,
      6621, 7614, 8756, 10069, 11580, 13317, 15315, 17612, 20254, 23292,
      26786, 30804, 35424, 40738, 46849, 53876, 61958, 71252, 81940, 94231
    >>

RECURSIVE ThresholdsUpTo(_)
\* thresholds[0..i] of generateLevelThresholds, as a sequence from index 1
ThresholdsUpTo(i) ==
    IF i = 0 THEN <<0>>
    ELSE LET thresholds == ThresholdsUpTo(i - 1)
         IN Append(thresholds, thresholds[i] + xpRequired[i])

generateLevelThresholds == ThresholdsUpTo(Len(xpRequired))

\* this.levelThresholds = this.generateLevelThresholds(), evaluated;
\* levelThresholds[i + 1] is the code's levelThresholds[i]
levelThresholds ==
    <<0, 100, 214, 346, 498, 672, 873, 1104, 1370, 1675, 2026, 2430, 2895, 3430,
      4045, 4752, 5565, 6500, 7576, 8813, 10236, 11872, 13754, 15918, 18407,
      21269, 24560, 28345, 32698, 37704, 43461, 50082, 57696, 66452, 76521,
      88101, 101418, 116733, 134345, 154599, 177891, 204677, 235481, 270905,
      311643, 358492, 412368, 474326, 545578, 627518, 721749>>

RECURSIVE CalculateLevelFrom(_, _)
\* the loop of calculateLevel from the code's index i downwards
CalculateLevelFrom(xp, i) ==
    IF i < 0 THEN 1
    ELSE IF xp >= levelThresholds[i + 1] THEN i + 1
    ELSE CalculateLevelFrom(xp, i - 1)

calculateLevel(xp) == CalculateLevelFrom(xp, Len(levelThresholds) - 1)

\* the titles of getLevelTitle, by ascending level
LevelTitles ==
    <<[lvl |-> 1, title |-> "Rookie"], [lvl |-> 5, title |-> "Beginner"],
      [lvl |-> 10, title |-> "Rising Star"], [lvl |-> 15, title |-> "Committed"],
      [lvl |-> 20, title |-> "Dedicated"], [lvl |-> 25, title |-> "Warrior"],
      [lvl |-> 30, title |-> "Champion"], [lvl |-> 35, title |-> "Elite"],
      [lvl |-> 40, title |-> "Master"], [lvl |-> 45, title |-> "Legend"],
      [lvl |-> 50, title |-> "GamifyFit Master"]>>

RECURSIVE LevelTitleFrom(_, _, _)
LevelTitleFrom(level, i, title) ==
    IF i > Len(LevelTitles) THEN title
    ELSE LevelTitleFrom(level, i + 1,
            IF level >= LevelTitles[i].lvl THEN LevelTitles[i].title ELSE title)

getLevelTitle(level) == LevelTitleFrom(level, 1, "Rookie")

getDefaultData ==
    [xp |-> 0, level |-> 1,
     streak |-> [current |-> 0, longest |-> 0, lastActivity |-> NullTime],
     badges |-> <<>>,
     challenges |-> [completed |-> 0, active |-> <<>>],
     stats |-> [totalWorkouts |-> 0, totalSteps |-> 0, totalCalories |-> 0,
                totalMinutes |-> 0, pushups |-> 0, squats |-> 0, runDistance |-> 0],
     history |-> <<>>]

\* the badge ids in the order of Object.entries(this.badges)
BadgeIds ==
    <<"first_workout", "workout_10", "workout_50", "workout_100", "streak_7",
      "streak_30", "streak_100", "challenge_5", "challenge_25", "level_10",
      "level_25", "level_50", "steps_100k", "steps_1m", "calories_10k",
      "calories_100k">>

\* badge.xp
BadgeXp(badgeId) ==
    CASE badgeId = "first_workout" -> 25
      [] badgeId = "workout_10" -> 100
      [] badgeId = "workout_50" -> 300
      [] badgeId = "workout_100" -> 500
      [] badgeId = "streak_7" -> 100
      [] badgeId = "streak_30" -> 500
      [] badgeId = "streak_100" -> 1000
      [] badgeId = "challenge_5" -> 75
      [] badgeId = "challenge_25" -> 300
      [] badgeId = "level_10" -> 200
      [] badgeId = "level_25" -> 400
      [] badgeId = "level_50" -> 1000
      [] badgeId = "steps_100k" -> 150
      [] badgeId = "steps_1m" -> 500
      [] badgeId = "calories_10k" -> 150
      [] badgeId = "calories_100k" -> 500

\* badge.condition(data, manager)
BadgeCondition(badgeId, d) ==
    CASE badgeId = "first_workout" -> d.stats.totalWorkouts >= 1
      [] badgeId = "workout_10" -> d.stats.totalWorkouts >= 10
      [] badgeId = "workout_50" -> d.stats.totalWorkouts >= 50
      [] badgeId = "workout_100" -> d.stats.totalWorkouts >= 100
      [] badgeId = "streak_7" -> d.streak.longest >= 7
      [] badgeId = "streak_30" -> d.streak.longest >= 30
      [] badgeId = "streak_100" -> d.streak.longest >= 100
      [] badgeId = "challenge_5" -> d.challenges.completed >= 5
      [] badgeId = "challenge_25" -> d.challenges.completed >= 25
      [] badgeId = "level_10" -> d.level >= 10
      [] badgeId = "level_25" -> d.level >= 25
      [] badgeId = "level_50" -> d.level >= 50
      [] badgeId = "steps_100k" -> d.stats.totalSteps >= 100000
      [] badgeId = "steps_1m" -> d.stats.totalSteps >= 1000000
      [] badgeId = "calories_10k" -> d.stats.totalCalories >= 10000
      [] badgeId = "calories_100k" -> d.stats.totalCalories >= 100000

\* the manager while an operation runs: this.data, the events dispatched on
\* window so far, and the item in localStorage
Manager(d, events, saved) == [data |-> d, events |-> events, saved |-> saved]

\* window.dispatchEvent(new CustomEvent(type, { detail }))
dispatchEvent(mg, type, detail) ==
    [mg EXCEPT !.events = Append(@, [type |-> type, detail |-> detail])]

\* localStorage.setItem(this.storageKey, JSON.stringify(this.data))
save(mg) == [mg EXCEPT !.saved = mg.data]

\* a mutant of SeqIncludes: nothing is ever found
SeqIncludesNothing(list, x) == FALSE

\* Array.prototype.includes
SeqIncludes(list, x) == \E i \in 1..Len(list) : list[i] = x

RECURSIVE CheckBadgesFrom(_, _, _)
\* the loop of checkBadges from the i-th badge on
CheckBadgesFrom(mg, i, newBadges) ==
    IF i > Len(BadgeIds) THEN [mg |-> mg, newBadges |-> newBadges]
    ELSE LET badgeId == BadgeIds[i]
             xp == mg.data.xp + BadgeXp(badgeId)
             awarded ==
                 [mg.data EXCEPT
                     !.badges = Append(@, badgeId),
                     !.xp = xp,
                     !.level = calculateLevel(xp),
                     !.history = Append(@, [type |-> "badge", badgeId |-> badgeId,
                                            xp |-> BadgeXp(badgeId)])]
         IN IF SeqIncludes(mg.data.badges, badgeId) THEN CheckBadgesFrom(mg, i + 1, newBadges)
            ELSE IF BadgeCondition(badgeId, mg.data)
            THEN CheckBadgesFrom(
                    dispatchEvent([mg EXCEPT !.data = awarded], "GamifyFit:badge", badgeId),
                    i + 1, Append(newBadges, badgeId))
            ELSE CheckBadgesFrom(mg, i + 1, newBadges)

\* checkBadges(): the manager afterwards and the new badges it returns
checkBadges(mg) ==
    LET r == CheckBadgesFrom(mg, 1, <<>>)
    IN [mg |-> IF Len(r.newBadges) > 0 THEN save(r.mg) ELSE r.mg,
        result |-> r.newBadges]

\* a mutant of onLevelUp: the bonus is added to the XP, with no history entry
onLevelUpCredited(mg, oldLevel, newLevel) ==
    dispatchEvent([mg EXCEPT !.data.xp = @ + (newLevel - oldLevel) * 50],
                  "GamifyFit:levelup",
                  [oldLevel |-> oldLevel, newLevel |-> newLevel,
                   title |-> getLevelTitle(newLevel),
                   bonusXP |-> (newLevel - oldLevel) * 50])

\* onLevelUp: the GamifyFit:levelup event
onLevelUp(mg, oldLevel, newLevel) ==
    dispatchEvent(mg, "GamifyFit:levelup",
                  [oldLevel |-> oldLevel, newLevel |-> newLevel,
                   title |-> getLevelTitle(newLevel),
                   bonusXP |-> (newLevel - oldLevel) * 50])

\* a mutant of awardXP: the level is not computed again from the XP
awardXPStaleLevel(mg, amount, source) ==
    LET d1 == [mg.data EXCEPT
                  !.xp = @ + amount,
                  !.history = Append(@, [type |-> "xp", amount |-> amount,
                                         source |-> source])]
        m3 == save(checkBadges([mg EXCEPT !.data = d1]).mg)
    IN [mg |-> m3,
        result |-> [xpAwarded |-> amount, totalXP |-> m3.data.xp,
                    level |-> m3.data.level, leveledUp |-> FALSE,
                    newTitle |-> "null"]]

\* awardXP(amount, source): the manager afterwards and the result
awardXP(mg, amount, source) ==
    LET previousLevel == mg.data.level
        xp == mg.data.xp + amount
        d1 == [mg.data EXCEPT
                  !.xp = xp,
                  !.level = calculateLevel(xp),
                  !.history = Append(@, [type |-> "xp", amount |-> amount,
                                         source |-> source])]
        leveledUp == d1.level > previousLevel
        m1 == [mg EXCEPT !.data = d1]
        m2 == IF leveledUp THEN onLevelUp(m1, previousLevel, d1.level) ELSE m1
        m3 == save(checkBadges(m2).mg)
    IN [mg |-> m3,
        result |-> [xpAwarded |-> amount, totalXP |-> m3.data.xp,
                    level |-> m3.data.level, leveledUp |-> leveledUp,
                    newTitle |-> IF leveledUp THEN getLevelTitle(m3.data.level)
                                 ELSE "null"]]

\* Date.prototype.toDateString: the calendar day of a time
toDateString(time) == time \div TicksPerDay

calculateStreakBonus(days) ==
    IF days = 7 THEN 100
    ELSE IF days = 14 THEN 200
    ELSE IF days = 30 THEN 500
    ELSE IF days = 100 THEN 1000
    ELSE IF days % 7 = 0 THEN 50
    ELSE 0

\* a mutant of updateStreak: a gap does not end the streak
updateStreakOverGaps(mg, time) ==
    LET streak == mg.data.streak
        today == toDateString(time)
        lastActivity == IF streak.lastActivity # NullTime
                        THEN toDateString(streak.lastActivity) ELSE NullTime
        current == streak.current + 1
        longest == IF current > streak.longest THEN current ELSE streak.longest
        m1 == [mg EXCEPT !.data.streak =
                  [current |-> current, longest |-> longest, lastActivity |-> time]]
        streakBonus == calculateStreakBonus(current)
        m2 == IF streakBonus > 0 THEN awardXP(m1, streakBonus, "streak_bonus").mg ELSE m1
        m3 == save(checkBadges(m2).mg)
    IN IF streak.lastActivity # NullTime /\ lastActivity = today
       THEN [mg |-> mg,
             result |-> [streakUpdated |-> FALSE, current |-> streak.current]]
       ELSE [mg |-> m3,
             result |-> [streakUpdated |-> TRUE, current |-> m3.data.streak.current,
                         longest |-> m3.data.streak.longest, bonus |-> streakBonus]]

\* updateStreak() at a time: the manager afterwards and the result
updateStreak(mg, time) ==
    LET streak == mg.data.streak
        today == toDateString(time)
        lastActivity == IF streak.lastActivity # NullTime
                        THEN toDateString(streak.lastActivity) ELSE NullTime
        yesterday == toDateString(time - TicksPerDay)
        current == IF lastActivity = yesterday /\ streak.lastActivity # NullTime
                   THEN streak.current + 1
                   ELSE 1
        longest == IF current > streak.longest THEN current ELSE streak.longest
        m1 == [mg EXCEPT !.data.streak =
                  [current |-> current, longest |-> longest, lastActivity |-> time]]
        streakBonus == calculateStreakBonus(current)
        m2 == IF streakBonus > 0 THEN awardXP(m1, streakBonus, "streak_bonus").mg ELSE m1
        m3 == save(checkBadges(m2).mg)
    IN IF streak.lastActivity # NullTime /\ lastActivity = today
       THEN [mg |-> mg,
             result |-> [streakUpdated |-> FALSE, current |-> streak.current]]
       ELSE [mg |-> m3,
             result |-> [streakUpdated |-> TRUE, current |-> m3.data.streak.current,
                         longest |-> m3.data.streak.longest, bonus |-> streakBonus]]

\* logWorkout({ duration, calories, type })
logWorkout(mg, workout, time) ==
    LET m1 == [mg EXCEPT
                  !.data.stats.totalWorkouts = @ + 1,
                  !.data.stats.totalMinutes = @ + workout.duration,
                  !.data.stats.totalCalories = @ + workout.calories]
        xpEarned == 50 + (IF workout.duration >= 30 THEN 25 ELSE 0)
                       + (IF workout.duration >= 60 THEN 25 ELSE 0)
                       + (IF workout.calories >= 200 THEN 15 ELSE 0)
                       + (IF workout.calories >= 400 THEN 25 ELSE 0)
        awarded == awardXP(m1, xpEarned, "workout_" \o workout.type)
        streakResult == updateStreak(awarded.mg, time)
    IN [mg |-> streakResult.mg,
        result |-> [xpAwarded |-> awarded.result.xpAwarded,
                    totalXP |-> awarded.result.totalXP,
                    level |-> awarded.result.level,
                    leveledUp |-> awarded.result.leveledUp,
                    newTitle |-> awarded.result.newTitle,
                    streak |-> streakResult.result]]

\* logSteps(steps)
logSteps(mg, steps) ==
    LET m1 == [mg EXCEPT !.data.stats.totalSteps = @ + steps]
        xpEarned == steps \div 100
    IN IF xpEarned > 0 THEN awardXP(m1, xpEarned, "steps")
       ELSE [mg |-> save(m1), result |-> [xpAwarded |-> 0]]

RECURSIVE FilterNotId(_, _)
\* active.filter(c => c.id !== id)
FilterNotId(active, id) ==
    IF Len(active) = 0 THEN <<>>
    ELSE (IF Head(active).id # id THEN <<Head(active)>> ELSE <<>>)
         \o FilterNotId(Tail(active), id)

\* completeChallenge({ id, xp, type })
completeChallenge(mg, challenge) ==
    LET m1 == [mg EXCEPT
                  !.data.challenges.active = FilterNotId(@, challenge.id),
                  !.data.challenges.completed = @ + 1]
    IN awardXP(m1, challenge.xp, "challenge_" \o challenge.type)

\* joinChallenge(challenge)
joinChallenge(mg, challenge) ==
    IF \E i \in 1..Len(mg.data.challenges.active) :
          mg.data.challenges.active[i].id = challenge.id
    THEN [mg |-> mg, result |-> FALSE]
    ELSE [mg |-> save([mg EXCEPT !.data.challenges.active =
                          Append(@, [id |-> challenge.id, progress |-> 0])]),
          result |-> TRUE]

\* reset()
reset(mg) == [mg |-> save([mg EXCEPT !.data = getDefaultData]), result |-> "undefined"]

\* the manager as an operation finds it: no event of this operation yet
Called == [manager EXCEPT !.events = <<>>]

\* an operation can start
CanStart == Len(manager.data.history) < MaxHistory

Max(a, b) == IF a > b THEN a ELSE b

\* an operation ran: the manager afterwards, what it returned, and the
\* record of active days and of the streaks there have been
Ran(r, active) ==
    /\ manager' = r.mg
    /\ returned' = r.result
    /\ activeDays' = IF active THEN activeDays \cup {toDateString(now)} ELSE activeDays
    /\ maxCurrent' = Max(maxCurrent, r.mg.data.streak.current)
    /\ UNCHANGED <<now, nonGameVars>>

AwardXP(amount, source) ==
    /\ CanStart
    /\ Ran(awardXP(Called, amount, source), FALSE)

CheckBadges ==
    /\ CanStart
    /\ Ran(checkBadges(Called), FALSE)

UpdateStreak ==
    /\ CanStart
    /\ Ran(updateStreak(Called, now), TRUE)

LogWorkout(workout) ==
    /\ CanStart
    /\ Ran(logWorkout(Called, workout, now), TRUE)

LogSteps(steps) ==
    /\ CanStart
    /\ Ran(logSteps(Called, steps), FALSE)

CompleteChallenge(challenge) ==
    /\ CanStart
    /\ Ran(completeChallenge(Called, challenge), FALSE)

JoinChallenge(challenge) ==
    /\ CanStart
    /\ Ran(joinChallenge(Called, challenge), FALSE)

\* reset(): the data, and with it the record kept of it, start again
Reset ==
    /\ manager' = reset(Called).mg
    /\ returned' = reset(Called).result
    /\ activeDays' = {}
    /\ maxCurrent' = 0
    /\ UNCHANGED <<now, nonGameVars>>

\* half a day passes
AdvanceTime ==
    /\ now < MaxNow
    /\ now' = now + 1
    /\ UNCHANGED <<manager, returned, activeDays, maxCurrent, nonGameVars>>

\* the inputs of the operations
Amounts == {40, 150, 721600}

Workouts ==
    {[duration |-> 0, calories |-> 0, type |-> "general"],
     [duration |-> 60, calories |-> 400, type |-> "run"]}

StepCounts == {5000, 100000}

Challenges == {[id |-> "c1", xp |-> 150, type |-> "daily"]}

\* a new user: new GamificationManager() with nothing in localStorage
GameIdle ==
    /\ manager = Manager(getDefaultData, <<>>, Null)
    /\ now = 0
    /\ returned = "undefined"
    /\ activeDays = {}
    /\ maxCurrent = 0

GameNext ==
    \/ \E amount \in Amounts : AwardXP(amount, "unknown")
    \/ CheckBadges
    \/ UpdateStreak
    \/ \E workout \in Workouts : LogWorkout(workout)
    \/ \E steps \in StepCounts : LogSteps(steps)
    \/ \E challenge \in Challenges : CompleteChallenge(challenge)
    \/ \E challenge \in Challenges : JoinChallenge(challenge)
    \/ Reset

StreakNext ==
    \/ UpdateStreak
    \/ \E workout \in Workouts : LogWorkout(workout)
    \/ AdvanceTime

\* the most steps logged in all
MaxSteps == 100000

\* step counts around the first step badge: a long walk that stops short of
\* it, one that reaches it, and a walk of fewer than 100 steps
StepsNearBadge == {50, 99950, 100000}

\* XP that leaves the user 75 XP below level 10 after 1000 XP more
AmountsNearLevel == {600}

\* logSteps while the total stays within MaxSteps
LogStepsUpTo(steps) ==
    /\ manager.data.stats.totalSteps + steps <= MaxSteps
    /\ LogSteps(steps)

StepsNext ==
    \/ \E amount \in AmountsNearLevel : AwardXP(amount, "unknown")
    \/ \E steps \in StepsNearBadge : LogStepsUpTo(steps)

(***************************************************************************)
(* Service worker: notificationclick.                                      *)
(***************************************************************************)
\* the most windows open when a notification is still shown
MaxWindows == 2

\* event.notification.data of the notifications shown: the page's
\* NotificationManager sets type (and challengeId), a push payload sets
\* whatever it carries
NotificationData ==
    {[type |-> "challenge", challengeId |-> "7", url |-> NoValue],
     [type |-> "challenge", challengeId |-> NoValue, url |-> NoValue],
     [type |-> "streak", challengeId |-> NoValue, url |-> "/plan.html"],
     [type |-> "achievement", challengeId |-> NoValue, url |-> NoValue],
     [type |-> "workout-reminder", challengeId |-> NoValue, url |-> NoValue],
     [type |-> NoValue, challengeId |-> NoValue, url |-> "/plan.html"],
     [type |-> NoValue, challengeId |-> NoValue, url |-> NoValue]}

\* event.action: '' for a click on the body, else the action of a button
NotificationActions == {"", "view", "dismiss", "start"}

\* the target of a click that is not dismissed
TargetUrl(action, notificationData) ==
    IF action = "view" \/ action = ""
    THEN IF notificationData.type = "challenge"
         THEN IF TruthyStr(notificationData.challengeId)
              THEN "/challenges.html?id=" \o notificationData.challengeId
              ELSE "/challenges.html"
         ELSE IF notificationData.type = "streak" THEN "/dashboard.html"
         ELSE IF notificationData.type = "achievement" THEN "/achievements.html"
         ELSE IF TruthyStr(notificationData.url) THEN notificationData.url
         ELSE "/dashboard.html"
    ELSE "/dashboard.html"

RECURSIVE FirstClient(_, _, _)
\* the first window from the i-th on whose URL includes the target, or 0
FirstClient(list, targetUrl, i) ==
    IF i > Len(list) THEN 0
    ELSE IF Includes(list[i], targetUrl) THEN i
    ELSE FirstClient(list, targetUrl, i + 1)

\* clients.openWindow(targetUrl): the URL is resolved against the worker's
OpenedUrl(targetUrl) == ScopeUrl(targetUrl)

NoClick == [action |-> None]

\* no notification on display: none shown yet, or closed by notification.close()
Closed == [open |-> FALSE]

\* showNotification: a notification goes on display
ShowNotification(notificationData) ==
    /\ notification = Closed
    /\ Len(clientList) <= MaxWindows
    /\ notification' = [open |-> TRUE, data |-> notificationData]
    /\ UNCHANGED <<clientList, clicked, nonNotifVars>>

\* a window is closed by the user
CloseWindow(i) ==
    /\ i \in 1..Len(clientList)
    /\ clientList' = SubSeq(clientList, 1, i - 1) \o SubSeq(clientList, i + 1, Len(clientList))
    /\ UNCHANGED <<notification, clicked, nonNotifVars>>

\* the notificationclick listener
NotificationClick(action) ==
    /\ notification.open
    /\ notification' = Closed
    /\ IF action = "dismiss"
       THEN /\ clicked' = [action |-> action, data |-> notification.data,
                           before |-> clientList, focused |-> 0, opened |-> NoValue]
            /\ UNCHANGED clientList
       ELSE LET targetUrl == TargetUrl(action, notification.data)
                client == FirstClient(clientList, targetUrl, 1)
            IN IF client # 0
               THEN /\ clicked' = [action |-> action, data |-> notification.data,
                                   before |-> clientList,
                                   focused |-> client, opened |-> NoValue]
                    /\ UNCHANGED clientList
               ELSE /\ clicked' = [action |-> action, data |-> notification.data,
                                   before |-> clientList,
                                   focused |-> 0, opened |-> targetUrl]
                    /\ clientList' = Append(clientList, OpenedUrl(targetUrl))
    /\ UNCHANGED nonNotifVars

NotifIdle ==
    /\ notification = Closed
    /\ clientList = <<>>
    /\ clicked = NoClick

NotifNext ==
    \/ \E notificationData \in NotificationData : ShowNotification(notificationData)
    \/ \E i \in 1..MaxWindows + 1 : CloseWindow(i)
    \/ \E action \in NotificationActions : NotificationClick(action)

(***************************************************************************)
(* PlanGenerator: the weekly workout plan.                                 *)
(***************************************************************************)
\* getExerciseDatabase(): name, muscle, difficulty and equipment of each
\* exercise (the tips text is left out)
exerciseDatabase ==
   [chest |->
    <<[name |-> "Push-Ups", muscle |-> "Chest", difficulty |-> 1,
       equipment |-> "none"],
      [name |-> "Incline Push-Ups", muscle |-> "Upper Chest", difficulty |-> 1,
       equipment |-> "none"],
      [name |-> "Diamond Push-Ups", muscle |-> "Chest, Triceps", difficulty |-> 2,
       equipment |-> "none"],
      [name |-> "Bench Press", muscle |-> "Chest", difficulty |-> 2,
       equipment |-> "barbell"],
      [name |-> "Dumbbell Press", muscle |-> "Chest", difficulty |-> 2,
       equipment |-> "dumbbells"],
      [name |-> "Incline Dumbbell Press", muscle |-> "Upper Chest", difficulty |-> 2,
       equipment |-> "dumbbells"],
      [name |-> "Dumbbell Flyes", muscle |-> "Chest", difficulty |-> 2,
       equipment |-> "dumbbells"],
      [name |-> "Cable Crossover", muscle |-> "Chest", difficulty |-> 3,
       equipment |-> "cable"]>>,
    back |->
    <<[name |-> "Pull-Ups", muscle |-> "Lats, Biceps", difficulty |-> 3,
       equipment |-> "pullup_bar"],
      [name |-> "Chin-Ups", muscle |-> "Lats, Biceps", difficulty |-> 2,
       equipment |-> "pullup_bar"],
      [name |-> "Inverted Rows", muscle |-> "Back", difficulty |-> 1,
       equipment |-> "none"],
      [name |-> "Bent Over Rows", muscle |-> "Back", difficulty |-> 2,
       equipment |-> "barbell"],
      [name |-> "Dumbbell Rows", muscle |-> "Back", difficulty |-> 2,
       equipment |-> "dumbbells"],
      [name |-> "Lat Pulldown", muscle |-> "Lats", difficulty |-> 2,
       equipment |-> "cable"],
      [name |-> "Deadlift", muscle |-> "Back, Hamstrings", difficulty |-> 3,
       equipment |-> "barbell"],
      [name |-> "Face Pulls", muscle |-> "Rear Delts", difficulty |-> 1,
       equipment |-> "cable"]>>,
    shoulders |->
    <<[name |-> "Pike Push-Ups", muscle |-> "Shoulders", difficulty |-> 2,
       equipment |-> "none"],
      [name |-> "Overhead Press", muscle |-> "Shoulders", difficulty |-> 2,
       equipment |-> "barbell"],
      [name |-> "Dumbbell Shoulder Press", muscle |-> "Shoulders", difficulty |-> 2,
       equipment |-> "dumbbells"],
      [name |-> "Lateral Raises", muscle |-> "Side Delts", difficulty |-> 1,
       equipment |-> "dumbbells"],
      [name |-> "Front Raises", muscle |-> "Front Delts", difficulty |-> 1,
       equipment |-> "dumbbells"],
      [name |-> "Arnold Press", muscle |-> "Shoulders", difficulty |-> 2,
       equipment |-> "dumbbells"],
      [name |-> "Reverse Flyes", muscle |-> "Rear Delts", difficulty |-> 1,
       equipment |-> "dumbbells"]>>,
    arms |->
    <<[name |-> "Bicep Curls", muscle |-> "Biceps", difficulty |-> 1,
       equipment |-> "dumbbells"],
      [name |-> "Hammer Curls", muscle |-> "Biceps, Forearms", difficulty |-> 1,
       equipment |-> "dumbbells"],
      [name |-> "Tricep Dips", muscle |-> "Triceps", difficulty |-> 2,
       equipment |-> "none"],
      [name |-> "Tricep Pushdowns", muscle |-> "Triceps", difficulty |-> 1,
       equipment |-> "cable"],
      [name |-> "Skull Crushers", muscle |-> "Triceps", difficulty |-> 2,
       equipment |-> "barbell"],
      [name |-> "Concentration Curls", muscle |-> "Biceps", difficulty |-> 1,
       equipment |-> "dumbbells"],
      [name |-> "Close Grip Bench Press", muscle |-> "Triceps", difficulty |-> 2,
       equipment |-> "barbell"]>>,
    legs |->
    <<[name |-> "Bodyweight Squats", muscle |-> "Quads, Glutes", difficulty |-> 1,
       equipment |-> "none"],
      [name |-> "Lunges", muscle |-> "Quads, Glutes", difficulty |-> 1,
       equipment |-> "none"],
      [name |-> "Barbell Squats", muscle |-> "Quads, Glutes", difficulty |-> 2,
       equipment |-> "barbell"],
      [name |-> "Front Squats", muscle |-> "Quads", difficulty |-> 3,
       equipment |-> "barbell"],
      [name |-> "Romanian Deadlifts", muscle |-> "Hamstrings, Glutes", difficulty |-> 2,
       equipment |-> "barbell"],
      [name |-> "Leg Press", muscle |-> "Quads", difficulty |-> 2,
       equipment |-> "machine"],
      [name |-> "Leg Curls", muscle |-> "Hamstrings", difficulty |-> 1,
       equipment |-> "machine"],
      [name |-> "Leg Extensions", muscle |-> "Quads", difficulty |-> 1,
       equipment |-> "machine"],
      [name |-> "Calf Raises", muscle |-> "Calves", difficulty |-> 1,
       equipment |-> "none"],
      [name |-> "Bulgarian Split Squats", muscle |-> "Quads, Glutes", difficulty |-> 2,
       equipment |-> "none"],
      [name |-> "Hip Thrusts", muscle |-> "Glutes", difficulty |-> 2,
       equipment |-> "barbell"]>>,
    core |->
    <<[name |-> "Plank", muscle |-> "Core", difficulty |-> 1,
       equipment |-> "none"],
      [name |-> "Crunches", muscle |-> "Abs", difficulty |-> 1,
       equipment |-> "none"],
      [name |-> "Leg Raises", muscle |-> "Lower Abs", difficulty |-> 2,
       equipment |-> "none"],
      [name |-> "Russian Twists", muscle |-> "Obliques", difficulty |-> 2,
       equipment |-> "none"],
      [name |-> "Mountain Climbers", muscle |-> "Core", difficulty |-> 2,
       equipment |-> "none"],
      [name |-> "Dead Bug", muscle |-> "Core", difficulty |-> 1,
       equipment |-> "none"],
      [name |-> "Bicycle Crunches", muscle |-> "Abs, Obliques", difficulty |-> 2,
       equipment |-> "none"],
      [name |-> "Hanging Leg Raises", muscle |-> "Lower Abs", difficulty |-> 3,
       equipment |-> "pullup_bar"]>>,
    cardio |->
    <<[name |-> "Jumping Jacks", muscle |-> "Full Body", difficulty |-> 1,
       equipment |-> "none"],
      [name |-> "High Knees", muscle |-> "Cardio", difficulty |-> 1,
       equipment |-> "none"],
      [name |-> "Burpees", muscle |-> "Full Body", difficulty |-> 3,
       equipment |-> "none"],
      [name |-> "Box Jumps", muscle |-> "Legs", difficulty |-> 2,
       equipment |-> "box"],
      [name |-> "Jump Rope", muscle |-> "Cardio", difficulty |-> 2,
       equipment |-> "rope"],
      [name |-> "Running", muscle |-> "Cardio", difficulty |-> 2,
       equipment |-> "none"],
      [name |-> "Cycling", muscle |-> "Legs, Cardio", difficulty |-> 2,
       equipment |-> "bike"]>>]

\* the splits of getWorkoutSplit, by days per week and goal
splits ==
    [d \in {3, 4, 5, 6} |->
        IF d = 3
        THEN [general |-> <<"full", "rest", "full", "rest", "full", "rest", "rest">>,
              build_muscle |-> <<"push", "rest", "pull", "rest", "legs", "rest", "rest">>,
              lose_weight |-> <<"hiit", "rest", "full", "rest", "cardio", "rest", "rest">>]
        ELSE IF d = 4
        THEN [general |-> <<"upper", "lower", "rest", "push", "pull", "rest", "rest">>,
              build_muscle |-> <<"chest", "back", "rest", "shoulders", "legs", "rest", "rest">>,
              lose_weight |-> <<"hiit", "lower", "rest", "upper", "cardio", "rest", "rest">>]
        ELSE IF d = 5
        THEN [general |-> <<"push", "pull", "legs", "rest", "upper", "lower", "rest">>,
              build_muscle |-> <<"chest", "back", "legs", "rest", "shoulders", "arms", "rest">>,
              lose_weight |-> <<"hiit", "lower", "cardio", "rest", "upper", "hiit", "rest">>]
        ELSE [general |-> <<"push", "pull", "legs", "push", "pull", "legs", "rest">>,
              build_muscle |-> <<"chest", "back", "legs", "shoulders", "arms", "full", "rest">>,
              lose_weight |-> <<"hiit", "upper", "cardio", "lower", "hiit", "cardio", "rest">>]]

\* getWorkoutSplit: splits[days]?.[goal] || splits[4].general
getWorkoutSplit(days, goal) ==
    IF days \in DOMAIN splits /\ goal \in DOMAIN splits[days]
    THEN splits[days][goal]
    ELSE splits[4].general

\* getWorkoutTypeName
getWorkoutTypeName(type) ==
    CASE type = "full" -> "Full Body"
      [] type = "upper" -> "Upper Body"
      [] type = "lower" -> "Lower Body"
      [] type = "push" -> "Push Day"
      [] type = "pull" -> "Pull Day"
      [] type = "legs" -> "Leg Day"
      [] type = "chest" -> "Chest Focus"
      [] type = "back" -> "Back Focus"
      [] type = "shoulders" -> "Shoulder Day"
      [] type = "arms" -> "Arm Day"
      [] type = "hiit" -> "HIIT Training"
      [] type = "cardio" -> "Cardio Session"
      [] OTHER -> "Workout"

\* getMuscleGroups
getMuscleGroups(workoutType) ==
    CASE workoutType = "full" -> <<"chest", "back", "legs", "core">>
      [] workoutType = "upper" -> <<"chest", "back", "shoulders", "arms">>
      [] workoutType = "lower" -> <<"legs", "core">>
      [] workoutType = "push" -> <<"chest", "shoulders", "arms">>
      [] workoutType = "pull" -> <<"back", "arms">>
      [] workoutType = "legs" -> <<"legs", "core">>
      [] workoutType = "chest" -> <<"chest", "shoulders">>
      [] workoutType = "back" -> <<"back">>
      [] workoutType = "shoulders" -> <<"shoulders", "arms">>
      [] workoutType = "arms" -> <<"arms">>
      [] workoutType = "hiit" -> <<"cardio", "core">>
      [] workoutType = "cardio" -> <<"cardio">>
      [] OTHER -> <<"full">>

\* the sets, reps and rest of a fitness level
setsConfig(fitnessLevel) ==
    IF fitnessLevel = "beginner"
    THEN [sets |-> 3, reps |-> <<12, 10, 10>>, rest |-> 60]
    ELSE IF fitnessLevel = "advanced"
    THEN [sets |-> 4, reps |-> <<10, 8, 6, 6>>, rest |-> 90]
    ELSE [sets |-> 4, reps |-> <<12, 10, 8, 8>>, rest |-> 75]

\* createExerciseWithSets
createExerciseWithSets(exercise, fitnessLevel) ==
    LET config == setsConfig(fitnessLevel)
    IN [name |-> exercise.name,
        muscle |-> exercise.muscle,
        sets |-> [i \in 1..config.sets |->
                     [reps |-> IF i <= Len(config.reps) THEN config.reps[i]
                               ELSE config.reps[Len(config.reps)],
                      weight |-> 0,
                      unit |-> IF exercise.equipment = "none" THEN "bodyweight"
                               ELSE "kg"]],
        rest |-> config.rest,
        completed |-> FALSE]

\* an order [...available].sort(() => Math.random() - 0.5) can leave
Shuffled(list, shuffle) ==
    IF shuffle = "reversed"
    THEN [i \in 1..Len(list) |-> list[Len(list) + 1 - i]]
    ELSE list

RECURSIVE SelectFromGroups(_, _, _, _, _, _)
\* the forEach over the muscle groups, from the i-th on
SelectFromGroups(muscleGroups, i, maxDifficulty, equipment, exercisesPerGroup, shuffle) ==
    IF i > Len(muscleGroups) THEN <<>>
    ELSE LET group == muscleGroups[i]
             availableExercises ==
                 IF group \in DOMAIN exerciseDatabase
                 THEN SelectSeq(exerciseDatabase[group], LAMBDA ex :
                          /\ ex.difficulty <= maxDifficulty
                          /\ \/ SeqIncludes(equipment, "none")
                             \/ SeqIncludes(equipment, ex.equipment))
                 ELSE <<>>
             shuffled == Shuffled(availableExercises, shuffle)
         IN SubSeq(shuffled, 1, Min(exercisesPerGroup, Len(shuffled)))
            \o SelectFromGroups(muscleGroups, i + 1, maxDifficulty, equipment,
                                exercisesPerGroup, shuffle)

\* selectExercises
selectExercises(workoutType, fitnessLevel, equipment, duration, shuffle) ==
    LET maxDifficulty == IF fitnessLevel = "beginner" THEN 1
                         ELSE IF fitnessLevel = "intermediate" THEN 2 ELSE 3
        muscleGroups == getMuscleGroups(workoutType)
        exercisesPerGroup == (duration * 2) \div 45
        totalExercises == Min(Len(muscleGroups) * exercisesPerGroup, 8)
        selected == SelectFromGroups(muscleGroups, 1, maxDifficulty, equipment,
                                     exercisesPerGroup, shuffle)
    IN [i \in 1..Min(totalExercises, Len(selected)) |->
           createExerciseWithSets(selected[i], fitnessLevel)]

\* calculateWorkoutXP
calculateWorkoutXP(exercises) == 50 + Len(exercises) * 5

dayNames == <<"Mon", "Tue", "Wed", "Thu", "Fri", "Sat", "Sun">>

\* generatePlan(userProfile)
generatePlan(userProfile, shuffle) ==
    LET split == getWorkoutSplit(userProfile.daysPerWeek, userProfile.goal)
        weeklyPlan ==
            [index \in 1..Len(split) |->
                IF split[index] = "rest"
                THEN [name |-> dayNames[index], date |-> index, type |-> "Rest Day",
                      isRest |-> TRUE, totalXp |-> 20, completed |-> FALSE]
                ELSE LET exercises == selectExercises(split[index],
                                          userProfile.fitnessLevel,
                                          userProfile.equipment,
                                          userProfile.duration, shuffle)
                     IN [name |-> dayNames[index], date |-> index,
                         type |-> getWorkoutTypeName(split[index]),
                         isRest |-> FALSE,
                         totalXp |-> calculateWorkoutXP(exercises),
                         completed |-> FALSE, exercises |-> exercises]]
    IN [weekNumber |-> 1, goal |-> userProfile.goal,
        fitnessLevel |-> userProfile.fitnessLevel, days |-> weeklyPlan]

\* the user profiles plans are generated for
Goals == {"general", "lose_weight", "build_muscle", "maintain", "improve_endurance"}

UserProfiles ==
    [fitnessLevel : {"beginner", "intermediate", "advanced"},
     goal : Goals,
     daysPerWeek : {3, 4, 5, 6},
     equipment : {<<"none">>, <<"dumbbells">>},
     duration : {30, 45}]

Shuffles == {"kept", "reversed"}

NoPlan == [weekNumber |-> 0]

\* a call of generatePlan
GeneratePlan(userProfile, shuffle) ==
    /\ profile' = userProfile
    /\ plan' = generatePlan(userProfile, shuffle)
    /\ UNCHANGED nonPlanVars

PlanIdle ==
    /\ profile = NoPlan
    /\ plan = NoPlan

PlanNext ==
    \E userProfile \in UserProfiles, shuffle \in Shuffles :
        GeneratePlan(userProfile, shuffle)

Init == SyncInit /\ FetchIdle /\ AuthIdle /\ GameIdle /\ NotifIdle /\ PlanIdle

\* a service worker about to be installed, with or without older caches
FetchInit ==
    /\ SyncInit
    /\ AuthIdle
    /\ GameIdle
    /\ NotifIdle
    /\ PlanIdle
    /\ swState = "new"
    /\ caches \in {<<>>, LeftoverCaches, RestartCaches}
    /\ fetched = NoFetch

FetchSpec == FetchInit /\ [][FetchNext]_vars

AuthSpec == Init /\ [][AuthNext]_vars

SessionSpec == Init /\ [][SessionNext]_vars

GameSpec == Init /\ [][GameNext]_vars

StreakSpec == Init /\ [][StreakNext]_vars

StepsSpec == Init /\ [][StepsNext]_vars

NotifSpec == Init /\ [][NotifNext]_vars

PlanSpec == Init /\ [][PlanNext]_vars

Next == SyncNext

Spec == Init /\ [][Next]_vars

\* Sync events keep firing, passes keep running, and the backend and the
\* store answer ok again and again.
FairSpec ==
    /\ Spec
    /\ WF_vars(registerServiceWorker)
    /\ WF_vars(syncOfflineData)
    /\ \A tag \in Tags : WF_vars(SyncEvent(tag))
    /\ \A fn \in SyncFns : /\ SF_vars(PostItem(fn, "ok"))
                           /\ SF_vars(DeleteItem(fn, TRUE))
                           /\ WF_vars(PassReturn(fn))

(***************************************************************************)
(* Properties of the offline sync queue.                                   *)
(***************************************************************************)
Running == {fn \in SyncFns : passes[fn].pc # "idle"}

\* the keys of the items of a pass's snapshot that have its type
Handled(p) ==
    {p.snap[i].id : i \in {j \in 1..Len(p.snap) :
                              p.snap[j].action_type = HandledType(p.fn)}}

\* an item is gone from the store only after a POST to its type's endpoint,
\* carrying its payload, was answered ok
DeletedOnlyAfterOk ==
    \A k \in 1..Len(added) :
        k \notin DOMAIN store =>
            \E fn \in SyncFns :
                /\ HandledType(fn) = added[k].action_type
                /\ \E i \in 1..Len(okPosts) :
                      okPosts[i] = [id |-> k, url |-> PostUrl(fn),
                                    body |-> JSONStringify(added[k].payload)]

PostFailedStep(fn) ==
    /\ passes[fn].pc = "fetch"
    /\ passes'[fn].pc # "idle"
    /\ passes'[fn].tried # passes[fn].tried
    /\ passes'[fn].okd = passes[fn].okd

\* a pass of fn starts in this step
PassStartStep(fn) == passes[fn].pc = "idle" /\ passes'[fn].pc # "idle"

\* C2: a failed POST (thrown or non-ok) leaves the item in the queue
\* unchanged, the pass goes on to the remaining items, and every later pass
\* for the type attempts the item again, however often it was attempted
\* before (max_retries is not applied).
C2_FailedItemsRetried ==
    /\ [](\A fn \in Running :
            LET p == passes[fn]
            IN /\ \A k \in Range(p.tried) \ p.okd :
                     /\ k \in DOMAIN store
                     /\ \E i \in 1..Len(p.snap) : p.snap[i] = store[k]
               /\ p.pc = "done" => Range(p.tried) = Handled(p))
    /\ [][\A fn \in SyncFns :
            /\ PostFailedStep(fn) =>
                  /\ store' = store
                  /\ passes'[fn].pc = "done" =>
                        Range(passes'[fn].tried) = Handled(passes[fn])
            /\ PassStartStep(fn) =>
                  \A k \in DOMAIN store :
                      store[k].action_type = HandledType(fn) =>
                          k \in Handled(passes'[fn])]_vars

\* the first item is still queued after more than max_retries failed POSTs,
\* and a pass is about to attempt it once more
C2_Witness ==
    /\ attempts > max_retries
    /\ 1 \in DOMAIN store
    /\ \E fn \in Running :
          /\ passes[fn].pc = "fetch"
          /\ passes[fn].snap[passes[fn].idx].id = 1

\* C3: every tag with a pending registration is one the sync listener handles.
C3_RegisteredTagsHandled ==
    \A tag \in registered : SyncListener(tag) # None

\* C4: every item ever queued is eventually delivered and deleted, so the
\* pending sync count returns to 0.
C4_EveryItemDelivered ==
    /\ \A k \in 1..MaxItems : (k \in DOMAIN store) ~> (k \notin DOMAIN store)
    /\ []<>(getPendingSyncCount = 0)

\* C5 (as stated): of two items of one type, the one inserted first is the
\* first to be delivered.
C5_Original ==
    \A i, j \in 1..Len(okPosts) :
        (i < j /\ okPosts[i].url = okPosts[j].url) => okPosts[i].id < okPosts[j].id

\* C5 (amended): within one sync pass the items of its type are POSTed in
\* insertion order, so the deliveries of one pass are first in, first out;
\* across passes an item whose POST failed is delivered after later items.
C5_FifoWithinPass ==
    \A fn \in Running :
        LET t == passes[fn].tried
        IN \A i, j \in 1..Len(t) : i < j => t[i] < t[j]

\* a pass has POSTed two items of its type
C5_Witness ==
    \E fn \in Running : Len(passes[fn].tried) >= 2

(***************************************************************************)
(* Properties of the fetch strategies.                                     *)
(***************************************************************************)
\* the last fetch event was answered by the strategy
AnsweredBy(strategy) == fetched.strategy = strategy

\* the /offline.html page as precached
OfflinePage == Response(OfflineUrl, 200, "network")

\* the requested paths whose URL contains an API endpoint string
ApiPaths == {"/backend/api.php", "/api/data.js"}

\* the requested paths with a static-asset extension or a precache path
StaticPaths == {"/dashboard.html", "/js/app.js", "/api/data.js", "/content.js"}

\* C6: a GET request over http(s) is answered by exactly one strategy, chosen
\* in the order API endpoint (network-first, API cache), static asset
\* (cache-first, static cache), navigation (navigation handler), anything
\* else (stale-while-revalidate, dynamic cache); any other request is not
\* answered by the service worker.
C6_StrategyPrecedence ==
    fetched.strategy # "idle" =>
        LET r == fetched.request
        IN IF r.method # "GET" \/ r.url.protocol \notin {"http:", "https:"}
           THEN fetched.strategy = None
           ELSE IF r.url.pathname \in ApiPaths
           THEN fetched.strategy = "networkFirstWithCache" /\ fetched.cache = API_CACHE
           ELSE IF r.url.pathname \in StaticPaths
           THEN fetched.strategy = "cacheFirstWithNetwork" /\ fetched.cache = CACHE_NAME
           ELSE IF r.mode = "navigate"
           THEN fetched.strategy = "navigationHandler"
           ELSE /\ fetched.strategy = "staleWhileRevalidate"
                /\ fetched.cache = DYNAMIC_CACHE

\* a request that is both an API call and a static asset went network-first,
\* and a navigation to a precached page went cache-first
C6_Witness ==
    \/ /\ AnsweredBy("networkFirstWithCache")
       /\ fetched.request.url.pathname = "/api/data.js"
    \/ /\ AnsweredBy("cacheFirstWithNetwork")
       /\ fetched.request.mode = "navigate"

\* C7: staleWhileRevalidate returns the cached response when the dynamic
\* cache has one, otherwise the network response, and with no cached entry
\* and a failed fetch what caches.match('/offline.html') finds; never null.
C7_SwrOfflineFallback ==
    AnsweredBy("staleWhileRevalidate") =>
        LET href == fetched.request.url.href
            cached == CacheMatch(fetched.before, DYNAMIC_CACHE, href)
        IN /\ fetched.response.kind # "null"
           /\ IF Truthy(cached) THEN fetched.response = cached
              ELSE IF fetched.net.kind = "resolve"
              THEN fetched.response = NetworkResponse(href, fetched.net)
              ELSE fetched.response = CachesMatch(fetched.before, OfflineUrl)

\* C8: when the fetch rejects, navigationHandler returns the cached copy of
\* the page if there is one and otherwise the /offline.html page;
\* cacheFirstWithNetwork returns the cached entry, without a network
\* request, when there is one, and the /offline.html page when there is no
\* entry and the fetch rejects.
C8_OfflinePageFallback ==
    LET href == fetched.request.url.href
        cached == CachesMatch(fetched.before, href)
    IN /\ (AnsweredBy("navigationHandler") /\ fetched.net.kind = "reject") =>
              fetched.response = IF Truthy(cached) THEN cached ELSE OfflinePage
       /\ AnsweredBy("cacheFirstWithNetwork") =>
              /\ Truthy(cached) =>
                    /\ fetched.response = cached
                    /\ fetched.via = "cache"
                    /\ caches = fetched.before
              /\ (~Truthy(cached) /\ fetched.net.kind = "reject") =>
                    fetched.response = OfflinePage

\* the same, for a service worker whose precache holds /offline.html
C8_HoldsWhenPrecached ==
    Truthy(CachesMatch(caches, OfflineUrl)) => C8_OfflinePageFallback

\* C9: networkFirstWithCache returns the network response whenever the fetch
\* resolves, and stores it in the API cache only if it is ok; when the fetch
\* rejects it returns the cached response for the request, and without one
\* a 503 JSON response with error 'offline'.
C9_NetworkFirst ==
    AnsweredBy("networkFirstWithCache") =>
        LET href == fetched.request.url.href
            cached == CachesMatch(fetched.before, href)
            network == NetworkResponse(href, fetched.net)
        IN IF fetched.net.kind = "resolve"
           THEN /\ fetched.response = network
                /\ fetched.via = "network"
                /\ caches = IF network.status \in 200..299
                            THEN CachePut(fetched.before, API_CACHE, href, network)
                            ELSE fetched.before
           ELSE IF Truthy(cached)
           THEN fetched.response = cached /\ caches = fetched.before
           ELSE /\ fetched.response.status = 503
                /\ fetched.response.body = "{error: offline}"
                /\ caches = fetched.before

\* an HTTP error was returned as is although a good response was cached, and
\* the cached response is still there
C9_Witness ==
    /\ AnsweredBy("networkFirstWithCache")
    /\ fetched.net.kind = "resolve"
    /\ fetched.response.status = 500
    /\ Truthy(CachesMatch(fetched.before, fetched.request.url.href))
    /\ CachesMatch(caches, fetched.request.url.href).status = 200

(***************************************************************************)
(* Claims about the OAuth callback, checked under AuthSpec.                *)
(***************************************************************************)
\* the response sets a session cookie
SetsSession(res) ==
    \E i \in DOMAIN res.setCookie : res.setCookie[i].name = "session"

\* why a finished callback failed, "" when nothing failed
FailureReason(cb) ==
    IF TruthyStr(cb.req.error) THEN encodeURIComponent(cb.req.error)
    ELSE IF cb.req.state # Cookie(parseCookies(cb.req.cookie), "oauth_state")
    THEN "invalid_state"
    ELSE IF cb.token = "notok" THEN "token_exchange_failed"
    ELSE IF cb.token \in {"notok-throw", "throw"} THEN "callback_failed"
    ELSE IF cb.userinfo = "notok" THEN "failed_to_get_user"
    ELSE IF cb.userinfo = "throw" \/ cb.sign = "throw" THEN "callback_failed"
    ELSE ""

\* C10: every failure of the OAuth callback (an error parameter, a state
\* mismatch, a token exchange or userinfo request that is not ok, a thrown
\* exception) ends in a 302 redirect to /auth.html?error=<reason> with no
\* session cookie set; a session cookie is set only by the answer that
\* redirects to /onboarding.html after nothing failed.
C10_FailuresRedirectWithoutSession ==
    callback.pc = "done" =>
        LET res == callback.res
            reason == FailureReason(callback)
        IN /\ res.status = 302
           /\ reason # "" =>
                /\ res.location = "/auth.html?error=" \o reason
                /\ IndexOf(res.location, " ", 1) = 0
                /\ ~SetsSession(res)
           /\ SetsSession(res) =>
                /\ reason = ""
                /\ res.location = "/onboarding.html"
           /\ reason = "" => SetsSession(res)

\* a userinfo request that was not ok has been answered with the redirect
\* to the error page, after the state check and the token exchange passed
C10_Witness ==
    /\ callback.pc = "done"
    /\ callback.token = "ok"
    /\ callback.userinfo = "notok"
    /\ callback.res.location = "/auth.html?error=failed_to_get_user"
    /\ callback.res.setCookie = <<>>

\* the callback has gone on to the token exchange
ReachedTokenExchange ==
    /\ callback.pc # "idle"
    /\ callback.pc # "done" \/ callback.token # "none"

\* C11: the callback goes on to the token exchange only for a request that
\* carries a state parameter equal to its oauth_state cookie; a request with
\* neither a state parameter nor an oauth_state cookie never gets there.
C11_StateRequiredForTokenExchange ==
    ReachedTokenExchange =>
        /\ callback.req.state # NoValue
        /\ Cookie(parseCookies(callback.req.cookie), "oauth_state") # NoValue
        /\ callback.req.state = Cookie(parseCookies(callback.req.cookie), "oauth_state")

\* what does hold: the token exchange is reached only when the state
\* parameter and the oauth_state cookie are the same value or both absent
C11_StateEqualOrBothAbsent ==
    ReachedTokenExchange =>
        callback.req.state = Cookie(parseCookies(callback.req.cookie), "oauth_state")

(***************************************************************************)
(* Claims about the session check, checked under SessionSpec.              *)
(***************************************************************************)
\* the user of the session-check answer
CheckedUser == sessionCheck.res.body.user

\* the request's Cookie header ends with a session cookie holding the token
CarriesSession(cookieHeader, token) == EndsWith(cookieHeader, "session=" \o token)

\* C12: the session check answers with a user only for a request whose
\* session cookie holds a token the callback signed under AUTH_SECRET and
\* that has not expired, and that user's id, email, name and picture are the
\* claims signed into the token; every answer has status 200, and for a
\* missing, malformed, forged or expired token the user is null.
C12_UserOnlyFromValidSession ==
    sessionCheck.pc = "done" =>
        /\ sessionCheck.res.status = 200
        /\ CheckedUser # Null =>
              /\ \E iat \in 0..sessionCheck.at :
                    /\ CarriesSession(sessionCheck.cookie, SessionToken(GoogleUser, iat))
                    /\ sessionCheck.at < iat + SessionDays
              /\ CheckedUser = [id |-> GoogleUser.id, email |-> GoogleUser.email,
                                name |-> GoogleUser.name, picture |-> GoogleUser.picture]

\* a session token was accepted on the last day before it expired
C12_Witness ==
    /\ sessionCheck.pc = "done"
    /\ CheckedUser # Null
    /\ CheckedUser.id = GoogleUser.id
    /\ sessionCheck.at = SessionDays - 1
    /\ CarriesSession(sessionCheck.cookie, SessionToken(GoogleUser, 0))

\* an expired token of the callback was answered with user null
C12_ExpiredWitness ==
    /\ sessionCheck.pc = "done"
    /\ CheckedUser = Null
    /\ sessionCheck.at = SessionDays
    /\ CarriesSession(sessionCheck.cookie, SessionToken(GoogleUser, 0))

(***************************************************************************)
(* Claims about the GamificationManager, checked under GameSpec and        *)
(* StreakSpec.                                                             *)
(***************************************************************************)
\* the code's index of the highest level threshold that is <= xp
HighestThreshold(xp) ==
    CHOOSE i \in 0..(Len(levelThresholds) - 1) :
        /\ levelThresholds[i + 1] <= xp
        /\ \A j \in (i + 1)..(Len(levelThresholds) - 1) : levelThresholds[j + 1] > xp

\* C13: after every operation of the manager data.level is
\* calculateLevel(data.xp), which is 1 plus the index of the highest level
\* threshold that is <= data.xp; awarding 150 XP to a new user, whose second
\* threshold is 100, leaves the user at level 2.
C13_LevelFollowsXp ==
    /\ [](/\ manager.data.level = calculateLevel(manager.data.xp)
          /\ manager.data.level = 1 + HighestThreshold(manager.data.xp)
          /\ levelThresholds[2] = 100)
    /\ [][(manager.data = getDefaultData /\ AwardXP(150, "unknown"))
             => manager'.data.level = 2]_vars

\* a new user was awarded 150 XP and is at level 2
C13_Witness ==
    /\ manager.data.history = <<[type |-> "xp", amount |-> 150, source |-> "unknown"]>>
    /\ manager.data.xp = 150
    /\ manager.data.level = 2

\* the day of the last activity
LastActiveDay == toDateString(manager.data.streak.lastActivity)

RECURSIVE RunEndingAt(_, _)
\* the length of the run of consecutive days of a set that ends at a day
RunEndingAt(days, day) ==
    IF day \notin days THEN 0 ELSE 1 + RunEndingAt(days, day - 1)

\* a call of updateStreak, alone or inside logWorkout
StreakUpdated == UpdateStreak \/ \E workout \in Workouts : LogWorkout(workout)

\* C14: updateStreak leaves streak.current unchanged when an activity was
\* already logged the same day, adds exactly 1 when the last activity was
\* the day before, and sets it to 1 otherwise; so streak.current is the
\* length of the run of consecutive active days ending at the last activity
\* day, and streak.longest is the largest streak.current there has been.
C14_StreakCountsConsecutiveDays ==
    /\ [](/\ manager.data.streak.current =
               IF manager.data.streak.lastActivity = NullTime THEN 0
               ELSE RunEndingAt(activeDays, LastActiveDay)
          /\ manager.data.streak.longest = maxCurrent)
    /\ [][StreakUpdated =>
            LET streak == manager.data.streak
                day == now \div TicksPerDay
            IN manager'.data.streak.current =
                 IF streak.lastActivity = NullTime THEN 1
                 ELSE IF streak.lastActivity \div TicksPerDay = day THEN streak.current
                 ELSE IF streak.lastActivity \div TicksPerDay = day - 1
                 THEN streak.current + 1
                 ELSE 1]_vars

\* after a run of three days and a gap the streak is 1 again, the longest 3
C14_Witness ==
    /\ manager.data.streak.current = 1
    /\ manager.data.streak.longest = 3
    /\ Cardinality(activeDays) = 4
    /\ LastActiveDay - 1 \notin activeDays

\* the entries a step appended to the history, and the badges it added
HistoryGrows ==
    /\ Len(manager'.data.history) >= Len(manager.data.history)
    /\ SubSeq(manager'.data.history, 1, Len(manager.data.history)) = manager.data.history

NewEntries ==
    SubSeq(manager'.data.history, Len(manager.data.history) + 1,
           Len(manager'.data.history))

NewBadges == Range(manager'.data.badges) \ Range(manager.data.badges)

RECURSIVE SumOfEntries(_, _)
\* the XP of the history entries of a type
SumOfEntries(entries, type) ==
    IF Len(entries) = 0 THEN 0
    ELSE (IF Head(entries).type # type THEN 0
          ELSE IF type = "xp" THEN Head(entries).amount
          ELSE Head(entries).xp)
         + SumOfEntries(Tail(entries), type)

RECURSIVE SumOfBadgeXp(_)
SumOfBadgeXp(badgeIds) ==
    IF badgeIds = {} THEN 0
    ELSE LET b == CHOOSE x \in badgeIds : TRUE
         IN BadgeXp(b) + SumOfBadgeXp(badgeIds \ {b})

\* C15: data.badges never holds a badge id twice; a step adds a badge only
\* if the badge's condition holds on the data it leaves, and it adds the
\* reward of each badge it adds to data.xp exactly once, beside the XP it
\* awards otherwise.
C15_BadgeAwardedOnce ==
    /\ [](\A i, j \in 1..Len(manager.data.badges) :
             manager.data.badges[i] = manager.data.badges[j] => i = j)
    /\ [][IF HistoryGrows
          THEN /\ \A b \in NewBadges : BadgeCondition(b, manager'.data)
               /\ Len(manager'.data.badges) =
                    Len(manager.data.badges) + Cardinality(NewBadges)
               /\ manager'.data.xp =
                    manager.data.xp + SumOfEntries(NewEntries, "xp")
                                    + SumOfBadgeXp(NewBadges)
          ELSE manager'.data.badges = <<>>]_vars

\* the first workout earned its badge and the badge's 25 XP beside the 50 XP
\* of the workout
C15_Witness ==
    /\ manager.data.badges = <<"first_workout">>
    /\ manager.data.stats.totalWorkouts = 1
    /\ manager.data.xp = 75

\* C16: data.level is in 1..50 for every XP total the operations reach.
C16_LevelWithinFifty == manager.data.level \in 1..50

\* what does hold: the level is in 1..51, the number of thresholds
C16_LevelWithinThresholds == manager.data.level \in 1..Len(levelThresholds)

\* C17: a step that raises data.level dispatches a GamifyFit:levelup event
\* that carries the level before and the level after.
C17_LevelUpAnnounced ==
    [][manager'.data.level > manager.data.level =>
          \E i \in 1..Len(manager'.events) :
              /\ manager'.events[i].type = "GamifyFit:levelup"
              /\ manager'.events[i].detail.oldLevel = manager.data.level
              /\ manager'.events[i].detail.newLevel = manager'.data.level]_vars

\* C18: when awardXP raises the level, the bonusXP of 50 per level that its
\* GamifyFit:levelup event announces is added to data.xp, beside the amount
\* awarded and the rewards of the badges added.
C18_LevelUpBonusCredited ==
    [][\A amount \in Amounts :
          (AwardXP(amount, "unknown") /\ returned'.leveledUp) =>
              \E i \in 1..Len(manager'.events) :
                  /\ manager'.events[i].type = "GamifyFit:levelup"
                  /\ manager'.events[i].detail.bonusXP =
                       50 * (manager'.events[i].detail.newLevel
                             - manager'.events[i].detail.oldLevel)
                  /\ manager'.data.xp >=
                       manager.data.xp + amount + SumOfBadgeXp(NewBadges)
                       + manager'.events[i].detail.bonusXP]_vars

\* what does hold: the event announces 50 XP per level, and data.xp grows by
\* the amount awarded and the rewards of the badges added, and by nothing else
C18_LevelUpBonusOnlyAnnounced ==
    [][\A amount \in Amounts :
          (AwardXP(amount, "unknown") /\ returned'.leveledUp) =>
              /\ \E i \in 1..Len(manager'.events) :
                    /\ manager'.events[i].type = "GamifyFit:levelup"
                    /\ manager'.events[i].detail.bonusXP =
                         50 * (manager'.events[i].detail.newLevel
                               - manager'.events[i].detail.oldLevel)
              /\ manager'.data.xp =
                   manager.data.xp + amount + SumOfBadgeXp(NewBadges)]_vars

(***************************************************************************)
(* Claims about the activate listener, checked under FetchSpec.            *)
(***************************************************************************)
\* the three caches of the current version
CurrentCacheNames == {CACHE_NAME, DYNAMIC_CACHE, API_CACHE}

\* C19: once the activate listener has run, no cache whose name starts with
\* 'GamifyFit-' exists other than the three current ones; the listener deletes
\* nothing else: the caches with other names and the three current caches are
\* left as they were, entries included, and it creates none.
C19_ActivateDeletesOldCachesOnly ==
    /\ [](swState = "activated" =>
             \A i \in 1..Len(caches) :
                 StartsWith(caches[i].name, "GamifyFit-")
                     => caches[i].name \in CurrentCacheNames)
    /\ [][Activate =>
            /\ Range(caches') \subseteq Range(caches)
            /\ \A i \in 1..Len(caches) :
                  (\/ ~StartsWith(caches[i].name, "GamifyFit-")
                   \/ caches[i].name \in CurrentCacheNames)
                      => caches[i] \in Range(caches')]_vars

\* activation found two old caches, a foreign cache and the three current
\* caches, and left the foreign and the current ones
C19_Witness ==
    /\ swState = "activated"
    /\ fetched = NoFetch
    /\ {caches[i].name : i \in 1..Len(caches)} = {"fonts-v1"} \cup CurrentCacheNames
    /\ \A i \in 1..Len(caches) :
          caches[i].name # CACHE_NAME => caches[i].entries = LeftoverEntries

(***************************************************************************)
(* Claims about the notificationclick listener, checked under NotifSpec.   *)
(***************************************************************************)
\* the target by the type of the notification alone
TargetByType(notificationData) ==
    IF notificationData.type = "challenge"
    THEN IF notificationData.challengeId # NoValue
         THEN "/challenges.html?id=" \o notificationData.challengeId
         ELSE "/challenges.html"
    ELSE IF notificationData.type = "achievement" THEN "/achievements.html"
    ELSE IF notificationData.type # "streak" /\ notificationData.url # NoValue
    THEN notificationData.url
    ELSE "/dashboard.html"

\* a click closed the notification and, unless dismissed, focused an open
\* window whose URL contains the target or else opened a window at it
ClickedThrough(action, target) ==
    /\ notification' = Closed
    /\ IF action = "dismiss"
       THEN /\ clicked'.focused = 0
            /\ clicked'.opened = NoValue
            /\ clientList' = clientList
       ELSE \/ /\ clicked'.focused \in 1..Len(clientList)
               /\ Includes(clientList[clicked'.focused], target)
               /\ clicked'.opened = NoValue
               /\ clientList' = clientList
            \/ /\ clicked'.focused = 0
               /\ \A i \in 1..Len(clientList) : ~Includes(clientList[i], target)
               /\ clicked'.opened = target
               /\ clientList' = Append(clientList, ScopeUrl(target))

\* C20: a notification click closes the notification; with action 'dismiss'
\* no window is focused or opened; with any other action either an open
\* window whose URL contains the target is focused or, when there is none, a
\* window is opened at the target, the target being /challenges.html (with
\* ?id= when challengeId is set) for type 'challenge', /achievements.html for
\* 'achievement', the notification's url when given and the type is none of
\* challenge, streak, achievement, and /dashboard.html otherwise.
C20_ClickGoesToTargetOfType ==
    [][\A action \in NotificationActions :
          NotificationClick(action) =>
              ClickedThrough(action, TargetByType(notification.data))]_vars

\* what does hold: the type and the url decide the target for a click on the
\* body or on 'view'; any other action that is not 'dismiss' goes to
\* /dashboard.html
C20_TargetOfTypeOnViewOnly ==
    [][\A action \in NotificationActions :
          NotificationClick(action) =>
              ClickedThrough(action,
                             IF action \in {"", "view"}
                             THEN TargetByType(notification.data)
                             ELSE "/dashboard.html")]_vars

\* 'start' on a challenge notification opened the dashboard
C20_OtherActionWitness ==
    /\ clicked.action = "start"
    /\ clicked.data.type = "challenge"
    /\ clicked.opened = "/dashboard.html"

(***************************************************************************)
(* Further claims about the GamificationManager.                           *)
(***************************************************************************)
\* the badges not in data.badges whose condition holds on the data
UnearnedBadgesDue == {b \in Range(BadgeIds) \ Range(manager.data.badges) :
                         BadgeCondition(b, manager.data)}

\* C22: after awardXP, logSteps, logWorkout, completeChallenge or
\* updateStreak has returned there is no badge outside data.badges whose
\* condition holds on the data, level badges reached through badge XP of the
\* same call and step badges crossed by fewer than 100 steps included.
C22_NoBadgeLeftUnearned == UnearnedBadgesDue = {}

\* logSteps(100000) at 600 XP: the XP of steps_100k lifted the user to
\* level 10 after the loop of checkBadges had passed level_10
C22_LevelBadgeMissed ==
    /\ manager.data.level = 10
    /\ manager.data.badges = <<"steps_100k">>
    /\ returned.level = 10

\* logSteps(50) at 99950 steps: the total reached 100000 and checkBadges
\* was not called
C22_StepBadgeMissed ==
    /\ manager.data.stats.totalSteps = 100000
    /\ manager.data.badges = <<>>
    /\ returned = [xpAwarded |-> 0]

\* C23: from the default data on, and after reset, data.xp is the sum of
\* amount over the history entries of type 'xp' plus the sum of xp over the
\* history entries of type 'badge'.
C23_XpIsSumOfHistory ==
    manager.data.xp = SumOfEntries(manager.data.history, "xp")
                      + SumOfEntries(manager.data.history, "badge")

\* a challenge and a workout were rewarded and a badge was earned: 150 XP
\* and 50 XP as 'xp' entries, 25 XP as a 'badge' entry
C23_Witness ==
    /\ manager.data.xp = 225
    /\ Len(manager.data.history) = 3
    /\ \E i \in 1..3 : manager.data.history[i].type = "badge"
    /\ manager.data.challenges.completed = 1

\* C24: the result of logWorkout reports as totalXP and level the data.xp
\* and data.level there are when logWorkout returns, the streak bonus and
\* the badge XP of the streak update of the same call included.
C24_WorkoutResultIsCurrent ==
    [][\A workout \in Workouts :
          LogWorkout(workout) =>
              /\ returned'.totalXP = manager'.data.xp
              /\ returned'.level = manager'.data.level]_vars

\* what does hold: totalXP is the XP before the streak update of the call,
\* so the streak bonus the result itself reports is missing from it
C24_WorkoutResultBeforeStreak ==
    [][\A workout \in Workouts :
          LogWorkout(workout) =>
              /\ returned'.totalXP <= manager'.data.xp
              /\ returned'.level <= manager'.data.level
              /\ returned'.streak.streakUpdated =>
                    returned'.totalXP + returned'.streak.bonus <= manager'.data.xp]_vars

\* a workout on the seventh day in a row: 100 XP of streak bonus and the
\* streak_7 badge came after the result was taken
C24_StreakBonusWitness ==
    /\ manager.data.streak.current = 7
    /\ "streak" \in DOMAIN returned
    /\ returned.streak.streakUpdated
    /\ returned.streak.bonus = 100
    /\ returned.totalXP < manager.data.xp

\* the ids of the challenges in challenges.active
ActiveIds == {manager.data.challenges.active[i].id :
                 i \in 1..Len(manager.data.challenges.active)}

\* C25: completeChallenge awards XP and counts a completion only for a
\* challenge that is in challenges.active: completing a challenge that was
\* not joined, or a second time, changes neither data.xp nor
\* challenges.completed; and joinChallenge never makes two active entries
\* with one id.
C25_CompletionNeedsActiveChallenge ==
    /\ [](Cardinality(ActiveIds) = Len(manager.data.challenges.active))
    /\ [][\A challenge \in Challenges :
             (CompleteChallenge(challenge) /\ challenge.id \notin ActiveIds) =>
                 /\ manager'.data.xp = manager.data.xp
                 /\ manager'.data.challenges.completed =
                      manager.data.challenges.completed]_vars

\* what does hold: no id is active twice, and completeChallenge removes the
\* challenge from challenges.active
C25_NoDuplicateActive ==
    /\ [](Cardinality(ActiveIds) = Len(manager.data.challenges.active))
    /\ [][\A challenge \in Challenges :
             CompleteChallenge(challenge) =>
                 /\ ActiveIds' = ActiveIds \ {challenge.id}
                 /\ manager'.data.challenges.completed =
                      manager.data.challenges.completed + 1]_vars

\* a challenge that was never joined was completed twice
C25_CompletedUnjoined ==
    /\ manager.data.challenges.completed = 2
    /\ manager.data.challenges.active = <<>>
    /\ Len(manager.data.history) = 2
    /\ manager.data.xp = 300

(***************************************************************************)
(* Further claims about background sync, checked under Spec.               *)
(***************************************************************************)
\* the item a pass is POSTing or deleting
CurrentItem(fn) == passes[fn].snap[passes[fn].idx]

\* C26: the backend answers ok to the POST of a queued action at most once,
\* whatever the interleaving of sync events, also when the delete after an
\* ok POST fails.
C26_AcceptedAtMostOnce ==
    [][\A fn \in SyncFns :
          PostItem(fn, "ok") => ~Logged(okPosts, CurrentItem(fn).id)]_vars

\* what does hold: an item is POSTed again only after its delete failed, and
\* never twice within one pass
C26_AcceptedAgainAfterFailedDelete ==
    [][\A fn \in SyncFns :
          (PostItem(fn, "ok") /\ Logged(okPosts, CurrentItem(fn).id)) =>
              /\ CurrentItem(fn).id \in DOMAIN store
              /\ \A i \in 1..Len(passes[fn].tried) :
                    passes[fn].tried[i] # CurrentItem(fn).id]_vars

(***************************************************************************)
(* Further claims about the install listener, checked under FetchSpec.     *)
(***************************************************************************)
\* C27: installation succeeds only if precaching did: whenever the service
\* worker is installed, or activated and answering fetches, the static cache
\* holds every entry of STATIC_ASSETS, /offline.html among them, so that the
\* offline fallback lookup finds a response.
C27_InstalledMeansPrecached ==
    swState \in {"installed", "activated"} =>
        /\ CACHE_NAME \in CacheNames(caches)
        /\ PrecacheUrls \subseteq DOMAIN CacheEntries(caches, CACHE_NAME)
        /\ Truthy(CachesMatch(caches, OfflineUrl))

\* what does hold: the static cache exists once the worker is installed
C27_InstalledMeansCacheOpened ==
    swState \in {"installed", "activated"} => CACHE_NAME \in CacheNames(caches)

\* the worker was activated although precaching had failed: the static cache
\* is empty and no cache holds /offline.html
C27_ActivatedWithoutPrecache ==
    /\ swState = "activated"
    /\ CacheEntries(caches, CACHE_NAME) = <<>>
    /\ ~Truthy(CachesMatch(caches, OfflineUrl))

(***************************************************************************)
(* Claims about the PlanGenerator, checked under PlanSpec.                 *)
(***************************************************************************)
\* the days of the plan that are not rest days
WorkoutDays == {i \in 1..Len(plan.days) : ~plan.days[i].isRest}

\* C21: for daysPerWeek in 3..6 and any of the goals general, lose_weight,
\* build_muscle, maintain, improve_endurance, generatePlan returns a plan of
\* exactly 7 days, Mon to Sun, of which exactly daysPerWeek are workout days.
C21_PlanHasDaysPerWeekWorkouts ==
    plan # NoPlan =>
        /\ [i \in 1..Len(plan.days) |-> plan.days[i].name] = dayNames
        /\ Len(plan.days) = 7
        /\ Cardinality(WorkoutDays) = profile.daysPerWeek

\* what does hold: 7 days, and daysPerWeek workout days for the goals that
\* have a split; any other goal gets the 4 workout days of the default split
C21_PlanFollowsSplitOrDefault ==
    plan # NoPlan =>
        /\ [i \in 1..Len(plan.days) |-> plan.days[i].name] = dayNames
        /\ Cardinality(WorkoutDays) =
             IF profile.goal \in {"general", "lose_weight", "build_muscle"}
             THEN profile.daysPerWeek ELSE 4

\* six days a week were asked for the goal maintain, four were planned
C21_DefaultSplitWitness ==
    /\ plan # NoPlan
    /\ profile.goal = "maintain"
    /\ profile.daysPerWeek = 6
    /\ Cardinality(WorkoutDays) = 4
    /\ \E i \in WorkoutDays : Len(plan.days[i].exercises) > 0

====
